---------------------------- MODULE Spec2Model ----------------------------
(***************************************************************************)
(* A model of plaso's collection / extraction / storage pipeline:          *)
(*   - the queue classes of plaso/lib/queue.py and lib/queue.py,           *)
(*   - the queue consumer loops (ConsumePathSpecs, ConsumeEventObjects),   *)
(*   - the collector of plaso/collector/collector.py,                      *)
(*   - the extraction worker of plaso/engine/worker.py,                    *)
(*   - the engine life cycle that wires them together.                     *)
(*                                                                         *)
(* Specifications:                                                         *)
(*   SpecQueue    the queue classes driven side by side by one caller      *)
(*   SpecCollect  Collector.Collect alone, over every small source tree    *)
(*   SpecWorker   the collector and one worker on a directory of files,    *)
(*                with parsers that may raise                              *)
(*   Spec         collector, workers, storage consumer and engine running  *)
(*                concurrently, with user interruption                     *)
(*   SpecRun      the same without user interruption                       *)
(*   FairRun, FairSpec   SpecRun and Spec under the scheduler's fairness   *)
(*   SpecSingle   a run to normal completion with one worker               *)
(*   SpecOrder    a run to normal completion with every worker started     *)
(*   SpecVss      the collectors on an image with volume shadow snapshots  *)
(*   SpecPre      the preprocessing plugins run by PreprocessSource        *)
(*   SpecSmart, FairSmart   SmartOpenFiles on nested containers            *)
(*   SpecFilter   one event object offered to each filtering producer      *)
(*   SpecProduce  the counting producers on a queue whose PushItem may     *)
(*                fail                                                     *)
(*   SpecWalk     Collector.Collect on deeper directory trees              *)
(*   SpecEnrich   one parser event through each enrichment routine         *)
(*   SpecGuess    GuessOS on the paths a searcher finds                    *)
(*   SpecCount    the front end's default number of workers                *)
(*   SpecEngine   Engine.SetSource, CreateCollector and GetSearcher        *)
(***************************************************************************)
EXTENDS Integers, Sequences, FiniteSets, TLC

(***************************************************************************)
(* Bounds of the model.                                                    *)
(***************************************************************************)
\* PushItem calls made by the caller of SpecQueue.
MaxPushes == 4
\* Distinct item values the caller of SpecQueue may push.
NumValues == 3
\* File entries below the root of the source tree in SpecCollect.
MaxEntries == 3
\* Time attributes set in a directory's stat object (one event each).
StatTimes == 1
\* Worker processes the engine may start.
NumWorkers == 2
\* File entries below the root of the source tree when workers run.
PipeEntries == 2
\* Parsers registered under self._parsers['all'].
NumParsers == 2
\* Events all parsers together may yield in one run.
MaxStored == 1
\* Preprocess plugins registered.
NumPlugins == 3
\* File entries below the root of a volume with snapshot stores.
VssEntries == 2
\* Snapshot stores of the volume (number_of_vss).
NumStores == 2
\* Values the sub-second parts of an inode's timestamps may take.
NumNanos == 2
\* Distinct files that the file handed to SmartOpenFiles may hold, at any
\* level (a file may hold itself).
NumContainers == 2
\* Members of one container.
MaxMembers == 2
\* PlasoWorker.MAX_FILE_DEPTH
MAX_FILE_DEPTH == 3
\* Events handed to the event filter.
MaxFiltered == 6
\* Events all parsers together may yield in a run of SpecSingle.
MaxYield == 2
\* Event objects the workers of SpecOrder yield in one run.
MaxOrdered == 3
\* Entries below the root of the source of SpecWalk.
WalkEntries == 5
\* Relative paths the searcher of SpecGuess returns.
MaxFound == 3
\* The greatest multiprocessing.cpu_count() of SpecCount.
MaxCpus == 16
\* The greatest --workers option of SpecCount.
MaxOption == 3
\* PreprocessPlugin.WEIGHT takes the values one to three.
MaxWeight == 3

VARIABLES
  \* ---- SpecQueue: the queue objects and what their caller observed
  stQueue,      \* plaso.lib.queue.SingleThreadedQueue._queue (a deque)
  mtQueue,      \* plaso.lib.queue.MultiThreadedQueue._queue
  oldQueue,     \* lib.queue.SingleThreadedQueue._queue (a deque)
  qPushed,      \* the items pushed so far, in call order
  stPopped,     \* what SingleThreadedQueue.PopItem returned, in call order
  mtPopped,     \* what MultiThreadedQueue.PopItem returned, in call order
  oldPopped,    \* what lib.queue SingleThreadedQueue.PopItems yielded
  stLast,       \* the outcome of the last SingleThreadedQueue.PopItem call
  \* ---- the pipeline
  source,       \* the source handed to the collector, and its file entries
  plan,         \* what Collector.Collect does on that source, step by step
  cpc,          \* the collector: "run", "done" (returned), "raised", "killed"
  cidx,         \* the step of plan the collector is at
  procQ,        \* the process queue (path specifications)
  storQ,        \* the storage queue (event objects)
  pc,           \* each queue consumer's place in its consume loop
  held,         \* the item each consumer's last PopItem returned
  handled,      \* the items each consumer passed to its _Consume callback
  wparser,      \* each worker's index into self._parsers['all'] in ParseFile
  wev,          \* events the current parser of each worker has yielded
  counter,      \* each worker's _counter_of_extracted_events
  ran,          \* <<file, parser>>: Parse was called; <<file, 0>>: no entry
  lastRaise,    \* each worker's last parser exception: <<file, parser,
                \* type, events yielded before it>>
  epc,          \* the engine: "wait", "done", "abort", "stopped"
  \* ---- preprocessing (Engine.PreprocessSource)
  preList,      \* the registered preprocess plugins, in registration order
  prePlatform,  \* the guessed platform
  prePc,        \* PreprocessSource: "idle", "run", "returned", "raised"
  preIdx,       \* the place in the weight-by-weight plugin order
  kb,           \* the attributes set on the preprocessing object
  preLog,       \* the plugins whose Run was called, in call order, each
                \* with the attributes it found set
  \* ---- the collector of plaso/collector/generic_collector.py
  genWalked,    \* the store_number of each GenericCollector._ProcessVss call
  \* ---- PlasoWorker.SmartOpenFiles (plaso/lib/worker.py)
  smartInput,   \* the file handed to SmartOpenFiles and what is inside it
  smartStack,   \* the generators of the recursion, the innermost last
  smartOut,     \* the file entries yielded, each with its nesting level
  smartPc,      \* "idle", "run", "done" (exhausted), "raised"
  \* ---- the event filter, at the three places that apply it
  filterObject, \* the filter object set: "none" or "filter"
  evFed,        \* the enriched events so far, each with what Matches returns
  wkQueue,      \* storage queue of an EventExtractionWorker (engine/worker.py)
  wkCounter,    \* its _counter_of_extracted_events
  pwQueue,      \* storage queue of a PlasoWorker (lib/worker.py)
  ctxQueue,     \* event queue of a ParserContext (parsers/context.py)
  ctxCounter,   \* its number_of_produced_events
  \* ---- event enrichment, at the three places that apply it
  enrEnv,       \* the preprocessing hostname, the user table, the stat
  enrEvent,     \* the event object as the parser yielded it
  enrOut,       \* the event object after each enrichment routine, once
                \* the parser has yielded it
  \* ---- GuessOS (preprocessors/interface.py and lib/preprocess.py)
  guessFound,   \* the relative paths searcher.Find returns, in its order
  guessOld,     \* what col_obj.FindPaths does for each of the three patterns
  guessed,      \* what each GuessOS returned, once called
  \* ---- the default worker count (frontend/log2timeline.py Main)
  optWorkers,   \* options.workers as parsed from the command line
  cpuCount,     \* multiprocessing.cpu_count()
  workerCount,  \* options.workers once Main has set the default, in a list
  \* ---- the engine object (plaso/lib/engine.py)
  engPathSpec,  \* Engine._source_path_spec: "None" or "path_spec"
  engSetSource, \* what SetSource did: "uncalled", "set", or what it raised
  includeStat,  \* the include_directory_stat argument of CreateCollector
  engCreated,   \* CreateCollector: "uncalled", "RuntimeError", "collector"
  engSearcher   \* GetSourceFileSystemSearcher: "uncalled", "RuntimeError",
                \* "searcher"

\* The variables of preprocessing.
prevars == <<preList, prePlatform, prePc, preIdx, kb, preLog>>

\* The variables of the generic collector.
genvars == <<genWalked>>

\* The variables of SmartOpenFiles.
smartvars == <<smartInput, smartStack, smartOut, smartPc>>

\* The variables of the event filter.
fltvars == <<filterObject, evFed, wkQueue, wkCounter, pwQueue, ctxQueue,
             ctxCounter>>

\* The variables of event enrichment.
enrvars == <<enrEnv, enrEvent, enrOut>>

\* The variables of GuessOS.
guessvars == <<guessFound, guessOld, guessed>>

\* The variables of the default worker count.
cntvars == <<optWorkers, cpuCount, workerCount>>

\* The variables of the engine object.
engvars == <<engPathSpec, engSetSource, includeStat, engCreated, engSearcher>>

\* The variables outside the queue objects and the pipeline.
evars == <<prevars, genvars, smartvars, fltvars,
  enrvars,
  guessvars,
  cntvars,
  engvars>>

queueVars == <<stQueue, mtQueue, oldQueue, qPushed, stPopped, mtPopped,
               oldPopped, stLast>>

pipeVars == <<source, plan, cpc, cidx, procQ, storQ, pc, held, handled,
              wparser, wev, counter, ran, lastRaise, epc>>

\* What a step of the pipeline leaves alone.
qvars == <<queueVars, evars>>

cvars == <<source, plan, cpc, cidx>>

wvars == <<pc, held, handled, wparser, wev, counter, ran, lastRaise>>

\* What a step of SpecQueue leaves alone.
pvars == <<pipeVars, evars>>

\* What a step of preprocessing leaves alone.
nonprevars == <<queueVars, pipeVars, genvars, smartvars, fltvars,
  enrvars,
  guessvars,
  cntvars,
  engvars>>

\* What a step of the generic collector leaves alone.
nongenvars == <<queueVars, pipeVars, prevars, smartvars, fltvars,
  enrvars,
  guessvars,
  cntvars,
  engvars>>

\* What a step of SmartOpenFiles leaves alone.
nonsmartvars == <<queueVars, pipeVars, prevars, genvars, fltvars,
  enrvars,
  guessvars,
  cntvars,
  engvars>>

\* What a step of the event filter leaves alone.
nonfltvars == <<queueVars, pipeVars, prevars, genvars, smartvars,
  enrvars,
  guessvars,
  cntvars,
  engvars>>

\* What a step of event enrichment leaves alone.
nonenrvars == <<queueVars, pipeVars,
  prevars, genvars, smartvars, fltvars,
  guessvars,
  cntvars,
  engvars>>

\* What a step of GuessOS leaves alone.
nonguessvars == <<queueVars, pipeVars,
  prevars, genvars, smartvars, fltvars, enrvars,
  cntvars,
  engvars>>

\* What a step of the default worker count leaves alone.
noncntvars == <<queueVars, pipeVars,
  prevars, genvars, smartvars, fltvars, enrvars, guessvars,
  engvars>>

\* What a step of the engine object alone leaves alone.
nonengvars == <<queueVars, pipeVars,
  prevars, genvars, smartvars, fltvars, enrvars, guessvars, cntvars>>

vars == <<stQueue, mtQueue, oldQueue, qPushed, stPopped, mtPopped,
          oldPopped, stLast, source, plan, cpc, cidx, procQ, storQ, pc, held,
          handled, wparser, wev, counter, ran, lastRaise, epc, preList,
          prePlatform, prePc, preIdx, kb, preLog, genWalked, smartInput,
          smartStack, smartOut, smartPc, filterObject, evFed, wkQueue,
          wkCounter, pwQueue, ctxQueue, ctxCounter,
          enrEnv, enrEvent, enrOut,
          guessFound, guessOld, guessed,
          optWorkers, cpuCount, workerCount,
          engPathSpec, engSetSource, includeStat, engCreated, engSearcher>>

\* The worker processes, and the consumer of the storage queue.
Workers == 1..NumWorkers

Storage == 0

Consumers == {Storage} \cup Workers

None == <<"None">>

\* The pipeline before anything was constructed (held fixed by SpecQueue).
NoSource == [src |-> "missing", dirmeta |-> FALSE,
             parent |-> <<>>, kind |-> <<>>]

PipeIdle ==
  /\ source = NoSource
  /\ plan = [ops |-> <<>>, outcome |-> "returned"]
  /\ cpc = "idle"
  /\ cidx = 1
  /\ procQ = <<>>
  /\ storQ = <<>>
  /\ pc = [c \in Consumers |-> "idle"]
  /\ held = [c \in Consumers |-> None]
  /\ handled = [c \in Consumers |-> <<>>]
  /\ wparser = [w \in Workers |-> 0]
  /\ wev = [w \in Workers |-> 0]
  /\ counter = [w \in Workers |-> 0]
  /\ ran = {}
  /\ lastRaise = [w \in Workers |-> None]
  /\ epc = "idle"

\* Preprocessing before it is asked for (held fixed by the other
\* specifications).
PreIdle ==
  /\ preList = <<>>
  /\ prePlatform = "none"
  /\ prePc = "idle"
  /\ preIdx = 1
  /\ kb = {}
  /\ preLog = <<>>

\* The generic collector before it is asked for.
GenIdle == genWalked = <<>>

\* SmartOpenFiles before it is called.
SmartIdle ==
  /\ smartInput = <<>>
  /\ smartStack = <<>>
  /\ smartOut = <<>>
  /\ smartPc = "idle"

\* The event filter before any event.
FilterIdle ==
  /\ filterObject = "none"
  /\ evFed = <<>>
  /\ wkQueue = <<>>
  /\ wkCounter = 0
  /\ pwQueue = <<>>
  /\ ctxQueue = <<>>
  /\ ctxCounter = 0

\* Event enrichment before any event.
EnrichIdle ==
  /\ enrEnv = None
  /\ enrEvent = None
  /\ enrOut = <<>>

\* GuessOS before it is called.
GuessIdle ==
  /\ guessFound = <<>>
  /\ guessOld = None
  /\ guessed = <<>>

\* The front end before the options are looked at.
CountIdle ==
  /\ optWorkers = 0
  /\ cpuCount = 1
  /\ workerCount = <<>>

\* The engine object after Engine.__init__.
EngineIdle ==
  /\ engPathSpec = "None"
  /\ engSetSource = "uncalled"
  /\ includeStat = FALSE
  /\ engCreated = "uncalled"
  /\ engSearcher = "uncalled"

\* Everything outside the queue objects and the pipeline, idle.
RestIdle == PreIdle /\ GenIdle /\ SmartIdle /\ FilterIdle
  /\ EnrichIdle
  /\ GuessIdle
  /\ CountIdle
  /\ EngineIdle

\* The queue objects of SpecQueue before any call (held fixed elsewhere).
QueuesIdle ==
  /\ stQueue = <<>>
  /\ mtQueue = <<>>
  /\ oldQueue = <<>>
  /\ qPushed = <<>>
  /\ stPopped = <<>>
  /\ mtPopped = <<>>
  /\ oldPopped = <<>>
  /\ stLast = [raised |-> "none", item |-> None, before |-> 0]

(***************************************************************************)
(* plaso/lib/queue.py: the queue classes.  A queue is the sequence of its  *)
(* items, oldest first.                                                    *)
(***************************************************************************)
\* class QueueEndOfInput: the end-of-input sentinel.
QueueEndOfInput == <<"EndOfInput">>

\* isinstance(item, QueueEndOfInput)
IsEndOfInput(item) == item[1] = "EndOfInput"

\* SingleThreadedQueue.PushItem: deque.append.
ST_PushItem(q, item) == Append(q, item)

\* A PopItem that takes the newest item (deque.pop instead of popleft).
ST_PopItem_Newest(q) ==
  IF Len(q) = 0
    THEN [raised |-> "QueueEmpty", item |-> None, queue |-> q]
    ELSE [raised |-> "none", item |-> q[Len(q)],
          queue |-> SubSeq(q, 1, Len(q) - 1)]

\* SingleThreadedQueue.PopItem: deque.popleft; IndexError becomes QueueEmpty.
ST_PopItem(q) ==
  IF Len(q) = 0
    THEN [raised |-> "QueueEmpty", item |-> None, queue |-> q]
    ELSE [raised |-> "none", item |-> Head(q), queue |-> Tail(q)]

\* SingleThreadedQueue.__len__
ST_Len(q) == Len(q)

\* SingleThreadedQueue.IsEmpty returns len(self._queue), an integer.
ST_IsEmpty(q) == Len(q)

\* Python's truth value of an integer, as `if queue.IsEmpty():` reads it.
Truthy(n) == n # 0

\* A PushItem that puts the item ahead of the queued ones.
MT_PushItem_Front(q, item) == <<item>> \o q

\* MultiThreadedQueue.PushItem: multiprocessing.Queue.put.
MT_PushItem(q, item) == Append(q, item)

\* MultiThreadedQueue.PopItem: multiprocessing.Queue.get blocks while the
\* queue is empty, so the result is defined on a non-empty queue only; a
\* KeyboardInterrupt during the wait becomes QueueEmpty.
MT_CanPop(q) == Len(q) > 0

MT_PopItem(q) == [raised |-> "none", item |-> Head(q), queue |-> Tail(q)]

MT_PopItemInterrupted(q) ==
  [raised |-> "QueueEmpty", item |-> None, queue |-> q]

\* MultiThreadedQueue.IsEmpty: multiprocessing.Queue.empty.
MT_IsEmpty(q) == Len(q) = 0

\* Queue.SignalEndOfInput: self.PushItem(QueueEndOfInput()).
SignalEndOfInput(q) == MT_PushItem(q, QueueEndOfInput)

(***************************************************************************)
(* lib/queue.py: the earlier SingleThreadedQueue.                          *)
(***************************************************************************)
\* SingleThreadedQueue.Queue: append unless closed.
Old_Queue(q, closed, item) == IF ~closed THEN Append(q, item) ELSE q

\* One step of the generator SingleThreadedQueue.PopItems: deque.pop takes
\* the item at the right end; IndexError ends the generator.
Old_PopItems(q) ==
  IF Len(q) = 0
    THEN [raised |-> "StopIteration", item |-> None, queue |-> q]
    ELSE [raised |-> "none", item |-> q[Len(q)],
          queue |-> SubSeq(q, 1, Len(q) - 1)]

(***************************************************************************)
(* The source: the file entries the virtual file system shows the          *)
(* collector.  Entry 0 is the root directory of the walk; entry e > 0 has  *)
(* parent[e] < e, and a directory lists its entries in increasing order.   *)
(* kind[e] is what the collector's tests return for the entry:             *)
(*   "file"    IsAllocated, not IsLink, IsFile                             *)
(*   "dir"     IsAllocated, not IsLink, IsDirectory                        *)
(*   "baddir"  as "dir", but listing it raises AccessError / BackEndError  *)
(*   "device"  IsAllocated, not IsLink, neither IsFile nor IsDirectory     *)
(*   "unalloc" not IsAllocated                                             *)
(*   "link"    IsLink                                                      *)
(*   "badstat" IsAllocated raises BackEndError                             *)
(*   "orphans" the virtual directory /$OrphanFiles of a TSK file system,   *)
(*             which holds unallocated entries only                        *)
(* src is what the source path specification resolves to:                  *)
(*   "missing" no file entry, "other" not a device, file or directory,     *)
(*   "osfile" / "osdir" a file / directory of type OS, "image" a storage   *)
(*   media image, "badimage" an image whose file system cannot be opened,  *)
(*   "osbadroot" / "badroot" a directory / image whose root directory      *)
(*   cannot be listed.                                                     *)
(***************************************************************************)
Kinds == {"file", "dir", "baddir", "device", "unalloc", "link", "badstat",
          "orphans"}

\* Kinds of entries that may hold entries of their own.
ParentKinds == {"dir", "baddir", "unalloc", "link", "orphans"}

WalkedSources == {"osdir", "image"}

UnwalkedSources == {"missing", "other", "osfile", "badimage", "osbadroot",
                    "badroot"}

WellFormed(src, parent, kind) ==
  \A e \in DOMAIN parent :
    /\ parent[e] < e
    /\ parent[e] # 0 => kind[parent[e]] \in ParentKinds
    /\ kind[e] = "orphans" => parent[e] = 0 /\ src = "image"
    /\ (parent[e] # 0 /\ kind[parent[e]] = "orphans") => kind[e] = "unalloc"

\* Every shape of a tree of n entries below the root.
Parents(n) == { p \in [1..n -> 0..(n - 1)] : \A e \in 1..n : p[e] < e }

\* source is a walked source with n entries below the root, of the given
\* source types and entry kinds.
IsWalkableSource(n, srcs, kinds) ==
  \E s \in srcs, m \in BOOLEAN, p \in Parents(n) :
    \E k \in [1..n -> kinds] :
      /\ WellFormed(s, p, k)
      /\ source = [src |-> s, dirmeta |-> m, parent |-> p, kind |-> k]

\* A source the collector does not walk: its entries do not matter.
FlatSources ==
  { [src |-> s, dirmeta |-> m, parent |-> <<>>, kind |-> <<>>] :
      s \in UnwalkedSources, m \in BOOLEAN }

(***************************************************************************)
(* plaso/collector/collector.py.  What the collector does is the sequence  *)
(* of its queue operations: <<"process", item>> is ProducePathSpec or      *)
(* SignalEndOfInput on the process queue, <<"storage", item>> is           *)
(* ProduceEventObject on the storage queue.                                *)
(***************************************************************************)
PathSpec(e) == <<"PathSpec", e>>

\* filestat.StatEvents.GetEventsFromStat: one event per time attribute set.
GetEventsFromStat(e) == [t \in 1..StatTimes |-> <<"Event", e, 0, t>>]

\* _SendContainerToStorage(file_entry, producer)
SendContainerToStorage(e) ==
  [t \in 1..StatTimes |-> <<"storage", GetEventsFromStat(e)[t]>>]

\* file_entry.sub_file_entries, in listing order.
SubFileEntries(sc, d) ==
  SelectSeq([e \in DOMAIN sc.parent |-> e], LAMBDA e : sc.parent[e] = d)

\* The first loop of _ProcessDirectory on one sub file entry, with the
\* IsLink test left out: a link is handled as the file it points to.
ProcessEntry_FollowLinks(sc, d, e) ==
  LET k == sc.kind[e] IN
  IF k \in {"unalloc", "badstat"} THEN <<>>
  ELSE IF sc.src = "image" /\ d = 0 /\ k = "orphans" THEN <<>>
  ELSE IF k \in {"dir", "baddir", "orphans"}
    THEN IF sc.dirmeta THEN SendContainerToStorage(d) ELSE <<>>
  ELSE IF k \in {"file", "link"} THEN << <<"process", PathSpec(e)>> >>
  ELSE <<>>

\* The first loop of FileSystemCollector._ProcessDirectory(file_entry = d)
\* on one sub file entry e: its queue operations.
ProcessEntry(sc, d, e) ==
  LET k == sc.kind[e] IN
  \* not IsAllocated() or IsLink(): continue; BackEndError: continue
  IF k \in {"unalloc", "link", "badstat"} THEN <<>>
  \* TSK only: file_entry.IsRoot() and name == '$OrphanFiles': continue
  ELSE IF sc.src = "image" /\ d = 0 /\ k = "orphans" THEN <<>>
  \* IsDirectory(): the stat events of file_entry go to storage
  ELSE IF k \in {"dir", "baddir", "orphans"}
    THEN IF sc.dirmeta THEN SendContainerToStorage(d) ELSE <<>>
  \* IsFile() (no duplicate file check): ProducePathSpec
  ELSE IF k = "file" THEN << <<"process", PathSpec(e)>> >>
  ELSE <<>>

\* Whether the first loop appends e to sub_directories.
IsSubDirectory(sc, d, e) ==
  /\ sc.kind[e] \in {"dir", "baddir", "orphans"}
  /\ ~(sc.src = "image" /\ d = 0 /\ sc.kind[e] = "orphans")

RECURSIVE FirstLoop(_, _, _)
FirstLoop(sc, d, es) ==
  IF es = <<>> THEN <<>>
  ELSE ProcessEntry(sc, d, Head(es)) \o FirstLoop(sc, d, Tail(es))

RECURSIVE ProcessDirectory(_, _)
RECURSIVE SecondLoop(_, _)
\* The second loop: _ProcessDirectory on each deferred directory; an
\* AccessError or BackEndError of one is logged and the next one is taken.
SecondLoop(sc, ds) ==
  IF ds = <<>> THEN <<>>
  ELSE ProcessDirectory(sc, Head(ds)).ops \o SecondLoop(sc, Tail(ds))

\* FileSystemCollector._ProcessDirectory(d): its queue operations, and
\* whether it raised (listing d failed before any entry was seen).
ProcessDirectory(sc, d) ==
  IF d # 0 /\ sc.kind[d] = "baddir"
    THEN [ops |-> <<>>, raised |-> TRUE]
    ELSE LET es == SubFileEntries(sc, d)
             ds == SelectSeq(es, LAMBDA e : IsSubDirectory(sc, d, e))
         IN  [ops |-> FirstLoop(sc, d, es) \o SecondLoop(sc, ds),
              raised |-> FALSE]

RECURSIVE ProcessDirectoryNesting(_, _)
\* The greatest number of _ProcessDirectory calls that are active at the
\* same time during _ProcessDirectory(d): the call itself, and below it the
\* calls its second loop makes, one deferred directory after the other.
ProcessDirectoryNesting(sc, d) ==
  IF d # 0 /\ sc.kind[d] = "baddir" THEN 1
  ELSE LET es == SubFileEntries(sc, d)
           ds == {e \in DOMAIN sc.kind :
                    sc.parent[e] = d /\ IsSubDirectory(sc, d, e)}
           below == {ProcessDirectoryNesting(sc, e) : e \in ds}
       IN  IF ds = {} THEN 1
           ELSE 1 + CHOOSE n \in below : \A m \in below : m <= n

\* FileSystemCollector.Collect without a filter file.
FsCollect(sc) ==
  IF sc.src \in {"osbadroot", "badroot"}
    THEN [ops |-> <<>>, raised |-> TRUE]
    ELSE ProcessDirectory(sc, 0)

\* Collector._ProcessImage without VSS: an IOError of OpenFileSystem and an
\* AccessError / BackEndError of the walk are logged, and it returns.
ProcessImage(sc) ==
  IF sc.src = "badimage" THEN <<>> ELSE FsCollect(sc).ops

\* Collector.Collect.
Collect(sc) ==
  IF sc.src = "missing"
    THEN [ops |-> << <<"process", QueueEndOfInput>> >>, outcome |-> "returned"]
  ELSE IF sc.src = "other"
    THEN [ops |-> <<>>, outcome |-> "raised"]
  ELSE IF sc.src = "osfile"
    THEN [ops |-> << <<"process", PathSpec(0)>>,
                     <<"process", QueueEndOfInput>> >>,
          outcome |-> "returned"]
  ELSE IF sc.src \in {"osdir", "osbadroot"}
    THEN [ops |-> FsCollect(sc).ops \o << <<"process", QueueEndOfInput>> >>,
          outcome |-> "returned"]
  ELSE [ops |-> ProcessImage(sc) \o << <<"process", QueueEndOfInput>> >>,
        outcome |-> "returned"]

\* Engine.SetSource on the same source: what it raises, or "set".
SetSource(sc) ==
  IF sc.src = "missing" THEN "BadConfigOption"
  ELSE IF sc.src = "other" THEN "CollectorError"
  ELSE "set"

\* One queue operation of the collector.
CollectorStep ==
  /\ cpc = "run"
  /\ cidx <= Len(plan.ops)
  /\ LET op == plan.ops[cidx] IN
       /\ procQ' = IF op[1] = "process" THEN MT_PushItem(procQ, op[2])
                                        ELSE procQ
       /\ storQ' = IF op[1] = "storage" THEN MT_PushItem(storQ, op[2])
                                        ELSE storQ
  /\ cidx' = cidx + 1
  /\ UNCHANGED <<source, plan, cpc, epc>>
  /\ UNCHANGED wvars
  /\ UNCHANGED qvars

\* Collect returns, or raises CollectorError.
CollectorReturn ==
  /\ cpc = "run"
  /\ cidx > Len(plan.ops)
  /\ cpc' = IF plan.outcome = "returned" THEN "done" ELSE "raised"
  /\ UNCHANGED <<source, plan, cidx, procQ, storQ, epc>>
  /\ UNCHANGED wvars
  /\ UNCHANGED qvars

(***************************************************************************)
(* SpecCollect: Collector.Collect alone, on every source.                  *)
(***************************************************************************)
CInit ==
  /\ QueuesIdle
  /\ RestIdle
  /\ IsWalkableSource(MaxEntries, WalkedSources, Kinds) \/ source \in FlatSources
  /\ plan = Collect(source)
  /\ cpc = "run"
  /\ cidx = 1
  /\ procQ = <<>>
  /\ storQ = <<>>
  /\ pc = [c \in Consumers |-> "idle"]
  /\ held = [c \in Consumers |-> None]
  /\ handled = [c \in Consumers |-> <<>>]
  /\ wparser = [w \in Workers |-> 0]
  /\ wev = [w \in Workers |-> 0]
  /\ counter = [w \in Workers |-> 0]
  /\ ran = {}
  /\ lastRaise = [w \in Workers |-> None]
  /\ epc = "idle"

\* Collect alone on a directory tree of files and directories.
WalkInit ==
  /\ QueuesIdle
  /\ RestIdle
  /\ IsWalkableSource(WalkEntries, {"osdir"}, {"file", "dir"})
  /\ plan = Collect(source)
  /\ cpc = "run"
  /\ cidx = 1
  /\ procQ = <<>>
  /\ storQ = <<>>
  /\ pc = [c \in Consumers |-> "idle"]
  /\ held = [c \in Consumers |-> None]
  /\ handled = [c \in Consumers |-> <<>>]
  /\ wparser = [w \in Workers |-> 0]
  /\ wev = [w \in Workers |-> 0]
  /\ counter = [w \in Workers |-> 0]
  /\ ran = {}
  /\ lastRaise = [w \in Workers |-> None]
  /\ epc = "idle"

CNext == CollectorStep \/ CollectorReturn

SpecCollect == CInit /\ [][CNext]_vars

SpecWalk == WalkInit /\ [][CNext]_vars

(***************************************************************************)
(* Volume shadow snapshots (Collector._ProcessImage with _process_vss set, *)
(* Collector._ProcessVSS) and the duplicate file check of                  *)
(* FileSystemCollector._ProcessDirectory.                                  *)
(* The volume and its snapshot stores hold the same entries (parent, kind, *)
(* inode); a store differs from the volume in the stat object of an inode  *)
(* and in whether it can be opened and listed.  The stat object of an      *)
(* inode is its four timestamps, here one value, and their sub-second      *)
(* parts, here one value; in the volume every inode has the stat object    *)
(* [time |-> 1, nano |-> 0], which no comparison of the code tells from    *)
(* any other choice, since fingerprints are compared per inode.            *)
(*   status "ok"      the file system opens and its root directory lists   *)
(*          "noopen"  Resolver.OpenFileSystem raises IOError               *)
(*          "badroot" listing the root raises AccessError / BackEndError   *)
(* vss_stores is the list handed to SetVssInformation (<<>> for None).     *)
(* <<"vss", i>> in the collector's plan is the call of OpenFileSystem for  *)
(* the path specification with store_index = i.                            *)
(***************************************************************************)
FsStatus == {"ok", "noopen", "badroot"}

VssKinds == {"file", "dir", "baddir"}

Inodes == 1..VssEntries

StatObjects == [time : {1}, nano : 0..(NumNanos - 1)]

VolumeStat == [time |-> 1, nano |-> 0]

StoreNumbers == 1..NumStores

\* The lists of store numbers a front end hands over: no number twice.
VssLists ==
  {<<>>} \cup { <<a>> : a \in StoreNumbers }
         \cup { p \in StoreNumbers \X StoreNumbers : p[1] # p[2] }

\* A hash that leaves the sub-second parts out.
CalculateNTFSTimeHash_NoNano(stat) == <<"md5", stat.time, 0>>

\* _CalculateNTFSTimeHash: the md5 digest of the timestamps and their
\* sub-second parts, written out field by field.
CalculateNTFSTimeHash(stat) == <<"md5", stat.time, stat.nano>>

\* The path specification of entry e in the file system walked: of the
\* volume, or of the store with the given index.
WalkPathSpec(fs, e) ==
  IF fs.store = "volume" THEN PathSpec(e) ELSE <<"PathSpec", e, fs.index>>

\* The first loop of _ProcessDirectory on sub file entry e of d, with the
\* hash list so far: its queue operations and the hash list after it.
DedupEntry(sc, fs, d, e, hashlist) ==
  IF sc.kind[e] # "file"
    THEN [ops |-> ProcessEntry(sc, d, e), hashlist |-> hashlist]
  ELSE LET push == << <<"process", WalkPathSpec(fs, e)>> >>
           hash_value == CalculateNTFSTimeHash(fs.stat[sc.inode[e]])
           inode == sc.inode[e]
       IN
    IF ~sc.duplicate_file_check
      THEN [ops |-> push, hashlist |-> hashlist]
    \* if inode in self._hashlist and hash_value in it: continue
    ELSE IF <<inode, hash_value>> \in hashlist
      THEN [ops |-> <<>>, hashlist |-> hashlist]
    ELSE [ops |-> push, hashlist |-> hashlist \cup {<<inode, hash_value>>}]

RECURSIVE DedupFirstLoop(_, _, _, _, _)
DedupFirstLoop(sc, fs, d, es, hashlist) ==
  IF es = <<>> THEN [ops |-> <<>>, hashlist |-> hashlist]
  ELSE LET first == DedupEntry(sc, fs, d, Head(es), hashlist)
           rest == DedupFirstLoop(sc, fs, d, Tail(es), first.hashlist)
       IN  [ops |-> first.ops \o rest.ops, hashlist |-> rest.hashlist]

RECURSIVE DedupDirectory(_, _, _, _)
RECURSIVE DedupSecondLoop(_, _, _, _)
\* The second loop, the hash list handed from one directory to the next.
DedupSecondLoop(sc, fs, ds, hashlist) ==
  IF ds = <<>> THEN [ops |-> <<>>, hashlist |-> hashlist]
  ELSE LET first == DedupDirectory(sc, fs, Head(ds), hashlist)
           rest == DedupSecondLoop(sc, fs, Tail(ds), first.hashlist)
       IN  [ops |-> first.ops \o rest.ops, hashlist |-> rest.hashlist]

\* FileSystemCollector._ProcessDirectory(d) with self._hashlist.
DedupDirectory(sc, fs, d, hashlist) ==
  IF d # 0 /\ sc.kind[d] = "baddir"
    THEN [ops |-> <<>>, raised |-> TRUE, hashlist |-> hashlist]
    ELSE LET es == SubFileEntries(sc, d)
             ds == SelectSeq(es, LAMBDA e : IsSubDirectory(sc, d, e))
             one == DedupFirstLoop(sc, fs, d, es, hashlist)
             two == DedupSecondLoop(sc, fs, ds, one.hashlist)
         IN  [ops |-> one.ops \o two.ops, raised |-> FALSE,
              hashlist |-> two.hashlist]

\* FileSystemCollector.Collect on an opened file system.
DedupCollect(sc, fs, hashlist) ==
  IF fs.status = "badroot"
    THEN [ops |-> <<>>, raised |-> TRUE, hashlist |-> hashlist]
    ELSE DedupDirectory(sc, fs, 0, hashlist)

\* vss_store_range of _ProcessVSS: store_nr - 1 for each store number of the
\* list, or range(0, number_of_vss).
VssStoreRange(sc) ==
  IF sc.vss_stores # <<>>
    THEN [i \in DOMAIN sc.vss_stores |-> sc.vss_stores[i] - 1]
    ELSE [i \in 1..Len(sc.stores) |-> i - 1]

\* The store with the given index as the file system a walk sees.
StoreFs(sc, store_index) ==
  [store |-> "vss", index |-> store_index,
   status |-> sc.stores[store_index + 1].status,
   stat |-> sc.stores[store_index + 1].stat]

VolumeFs(sc) ==
  [store |-> "volume", index |-> 0, status |-> sc.volume,
   stat |-> [i \in Inodes |-> VolumeStat]]

RECURSIVE VssLoop(_, _, _)
\* The loop of _ProcessVSS over vss_store_range.  OpenFileSystem is outside
\* the try: its IOError leaves _ProcessVSS.  An AccessError / BackEndError
\* of Collect is logged and _ProcessVSS returns.
VssLoop(sc, range, hashlist) ==
  IF range = <<>> THEN [ops |-> <<>>, outcome |-> "returned"]
  ELSE LET fs == StoreFs(sc, Head(range))
           open == << <<"vss", Head(range)>> >>
           r == DedupCollect(sc, fs, hashlist)
           rest == VssLoop(sc, Tail(range), r.hashlist)
       IN  IF fs.status = "noopen"
             THEN [ops |-> open, outcome |-> "raised"]
           ELSE IF r.raised
             THEN [ops |-> open \o r.ops, outcome |-> "returned"]
           ELSE [ops |-> open \o r.ops \o rest.ops, outcome |-> rest.outcome]

\* Collector._ProcessImage after SetVssInformation.
ProcessImageVss(sc) ==
  LET vol == DedupCollect(sc, VolumeFs(sc), {}) IN
  IF sc.volume = "noopen" \/ vol.raised
    THEN [ops |-> <<>>, outcome |-> "returned"]
    ELSE LET vss == VssLoop(sc, VssStoreRange(sc), vol.hashlist)
         IN  [ops |-> vol.ops \o vss.ops, outcome |-> vss.outcome]

\* Collector.Collect on a storage media image after SetVssInformation:
\* SignalEndOfInput follows _ProcessImage when that returns.
CollectVss(sc) ==
  LET r == ProcessImageVss(sc) IN
  IF r.outcome = "raised"
    THEN [ops |-> r.ops, outcome |-> "raised"]
    ELSE [ops |-> r.ops \o << <<"process", QueueEndOfInput>> >>,
          outcome |-> "returned"]

(***************************************************************************)
(* plaso/collector/generic_collector.py: the store numbers its             *)
(* _ProcessImage hands to _ProcessVss, which opens the file system with    *)
(* store_number = that number.                                             *)
(***************************************************************************)
GetVssStores(vss_stores, vss_numbers) ==
  IF vss_stores # <<>>
    THEN SelectSeq(vss_stores, LAMBDA nr : nr > 0 /\ nr <= vss_numbers)
    ELSE [i \in 1..vss_numbers |-> i - 1]

\* for store_number in self._GetVssStores(): self._ProcessVss(store_number)
\* (run here once the collector of collector.py is through).
GenericProcessVss ==
  /\ cpc # "run"
  /\ LET list == GetVssStores(source.vss_stores, Len(source.stores)) IN
       /\ Len(genWalked) < Len(list)
       /\ genWalked' = Append(genWalked, list[Len(genWalked) + 1])
  /\ UNCHANGED nongenvars

(***************************************************************************)
(* SpecVss: both collectors on every small volume with snapshot stores.    *)
(***************************************************************************)
VssShape(p, k, i) ==
  /\ \A e \in DOMAIN p : p[e] < e /\ (p[e] # 0 => k[p[e]] \in {"dir", "baddir"})
  \* inodes are numbered in the order the entries first use them
  /\ \A e \in DOMAIN i : i[e] <= e /\ (e > 1 => i[e] <= i[e - 1] + 1)
  \* the names of one inode are of one kind
  /\ \A e, f \in DOMAIN i : i[e] = i[f] => k[e] = k[f]

IsVssSource ==
  \E p \in Parents(VssEntries), k \in [1..VssEntries -> VssKinds],
     i \in [1..VssEntries -> Inodes], dup \in BOOLEAN, l \in VssLists,
     st \in [StoreNumbers -> [status : FsStatus,
                              stat : [Inodes -> StatObjects]]] :
    /\ VssShape(p, k, i)
    \* the stat object of an inode no entry uses is left at the volume's
    /\ \A n \in StoreNumbers, j \in Inodes :
         (\A e \in DOMAIN i : i[e] # j) => st[n].stat[j] = VolumeStat
    /\ source = [src |-> "image", dirmeta |-> FALSE, parent |-> p, kind |-> k,
                 inode |-> i, duplicate_file_check |-> dup, vss_stores |-> l,
                 volume |-> "ok", stores |-> st]

\* A volume that does not open or list: nothing else of it is looked at.
BadVolumes ==
  { [src |-> "image", dirmeta |-> FALSE, parent |-> <<>>, kind |-> <<>>,
     inode |-> <<>>, duplicate_file_check |-> FALSE, vss_stores |-> <<>>,
     volume |-> v,
     stores |-> [n \in StoreNumbers |->
                   [status |-> "ok", stat |-> [j \in Inodes |-> VolumeStat]]]] :
      v \in {"noopen", "badroot"} }

VInit ==
  /\ QueuesIdle
  /\ RestIdle
  /\ IsVssSource \/ source \in BadVolumes
  /\ plan = CollectVss(source)
  /\ cpc = "run"
  /\ cidx = 1
  /\ procQ = <<>>
  /\ storQ = <<>>
  /\ pc = [c \in Consumers |-> "idle"]
  /\ held = [c \in Consumers |-> None]
  /\ handled = [c \in Consumers |-> <<>>]
  /\ wparser = [w \in Workers |-> 0]
  /\ wev = [w \in Workers |-> 0]
  /\ counter = [w \in Workers |-> 0]
  /\ ran = {}
  /\ lastRaise = [w \in Workers |-> None]
  /\ epc = "idle"

VNext == CollectorStep \/ CollectorReturn \/ GenericProcessVss

SpecVss == VInit /\ [][VNext]_vars

(***************************************************************************)
(* The consume loops (plaso/lib/queue.py).  ConsumePathSpecs,              *)
(* ConsumeEventObjects, ConsumeItems, ConsumeAnalysisReports and           *)
(* ConsumeParseErrors have the same body: pop; on QueueEmpty leave the     *)
(* loop; on QueueEndOfInput push the item back and leave the loop;         *)
(* otherwise call the _Consume callback with the item.  A step of the loop *)
(* is one queue operation, so other processes run between a pop and the    *)
(* push that follows it.  The isinstance test that raises RuntimeError is  *)
(* left out: the process queue carries path specifications and the         *)
(* sentinel only, the storage queue event objects and the sentinel only.   *)
(***************************************************************************)
\* The queue a consumer reads: workers the process queue, the storage
\* consumer the storage queue.
QueueOf(c) == IF c = Storage THEN "storage" ELSE "process"

\* A loop body that breaks on the sentinel without pushing it back.
ConsumeLoopBody_DropSentinel(item) ==
  [requeue |-> FALSE,
   callback |-> ~IsEndOfInput(item),
   stop |-> IsEndOfInput(item)]

\* A loop body that pushes every popped item back.
ConsumeLoopBody_RequeueAll(item) ==
  [requeue |-> TRUE,
   callback |-> ~IsEndOfInput(item),
   stop |-> IsEndOfInput(item)]

\* A loop body that also passes the sentinel to the callback.
ConsumeLoopBody_SentinelToCallback(item) ==
  [requeue |-> IsEndOfInput(item),
   callback |-> TRUE,
   stop |-> IsEndOfInput(item)]

\* A loop body that leaves the loop after any item.
ConsumeLoopBody_StopAfterItem(item) ==
  [requeue |-> IsEndOfInput(item),
   callback |-> ~IsEndOfInput(item),
   stop |-> TRUE]

\* What the loop body does with a popped item: the sentinel is pushed back
\* and ends the loop, any other item goes to the _Consume callback.
ConsumeLoopBody(item) ==
  [requeue |-> IsEndOfInput(item),
   callback |-> ~IsEndOfInput(item),
   stop |-> IsEndOfInput(item)]

\* A loop that calls PopItem again after QueueEmpty.
OnQueueEmpty_Continue == "pop"

\* What the loop does when PopItem raises QueueEmpty: break.
OnQueueEmpty == "done"

\* PopItem finds the queue empty and waits inside self._queue.get().
ConsumerBlock(c) ==
  /\ pc[c] = "pop"
  /\ ~MT_CanPop(IF QueueOf(c) = "process" THEN procQ ELSE storQ)
  /\ pc' = [pc EXCEPT ![c] = "blocked"]
  /\ UNCHANGED <<procQ, storQ, held, handled, wparser, wev, counter, ran,
                 lastRaise, epc>>
  /\ UNCHANGED cvars
  /\ UNCHANGED qvars

\* item = self._queue.PopItem() returns an item.
ConsumerPop(c) ==
  /\ pc[c] \in {"pop", "blocked"}
  /\ LET q == IF QueueOf(c) = "process" THEN procQ ELSE storQ IN
       /\ MT_CanPop(q)
       /\ LET r == MT_PopItem(q) IN
            /\ held' = [held EXCEPT ![c] = r.item]
            /\ procQ' = IF QueueOf(c) = "process" THEN r.queue ELSE procQ
            /\ storQ' = IF QueueOf(c) = "storage" THEN r.queue ELSE storQ
  /\ pc' = [pc EXCEPT ![c] = "got"]
  /\ UNCHANGED <<handled, wparser, wev, counter, ran, lastRaise, epc>>
  /\ UNCHANGED cvars
  /\ UNCHANGED qvars

\* The storage consumer's loop body: the sentinel goes back on the storage
\* queue, an event object goes to _ConsumeEventObject.
StorageGot ==
  /\ pc[Storage] = "got"
  /\ LET item == held[Storage]
         body == ConsumeLoopBody(item)
     IN  /\ storQ' = IF body.requeue THEN MT_PushItem(storQ, item) ELSE storQ
         /\ handled' = IF body.callback
                         THEN [handled EXCEPT ![Storage] = Append(@, item)]
                         ELSE handled
         /\ pc' = [pc EXCEPT ![Storage] = IF body.stop THEN "done" ELSE "pop"]
  /\ UNCHANGED <<procQ, held, wparser, wev, counter, ran, lastRaise, epc>>
  /\ UNCHANGED cvars
  /\ UNCHANGED qvars

(***************************************************************************)
(* The worker (plaso/engine/worker.py).  _ConsumePathSpec opens the file   *)
(* entry and ParseFile runs every parser of self._parsers['all'] on it.    *)
(* What a parser does with a file is the environment's choice: it yields   *)
(* events, returns, or raises.                                             *)
(***************************************************************************)
\* The exceptions a parser (or _ParseEvent on its event) can raise:
\* errors.UnableToParseFile, IOError, and any other Exception subclass.
ExceptionTypes == {"UnableToParseFile", "IOError", "Exception"}

\* ParseFile without its last clause, except Exception.
CaughtInParseFile_NoWideNet(exc) == exc \in {"UnableToParseFile", "IOError"}

\* The except clauses around one parser in ParseFile.
CaughtInParseFile(exc) == exc \in {"UnableToParseFile", "IOError", "Exception"}

\* The except clause around ParseFile in _ConsumePathSpec.
CaughtInConsumePathSpec(exc) == exc = "IOError"

\* A producer that loses the event object.
ProduceEventObject_Dropped(q, event) == q

\* EventObjectQueueProducer.ProduceEventObject: self._queue.PushItem (the
\* ValueError it catches is not raised by MultiThreadedQueue.PushItem here).
ProduceEventObject(q, event) == MT_PushItem(q, event)

RECURSIVE SumCounters(_)
SumCounters(ws) ==
  IF ws = {} THEN 0
  ELSE LET w == CHOOSE x \in ws : TRUE IN counter[w] + SumCounters(ws \ {w})

\* The worker's loop body.  For a path specification it enters
\* _ConsumePathSpec, where the entry opens and is stat'ed (ParseFile starts
\* with the first parser) or does not (the callback returns at once).
WorkerGot(w) ==
  /\ pc[w] = "got"
  /\ LET item == held[w]
         body == ConsumeLoopBody(item)
     IN  /\ procQ' = IF body.requeue THEN MT_PushItem(procQ, item) ELSE procQ
         /\ handled' = IF body.callback
                         THEN [handled EXCEPT ![w] = Append(@, item)]
                         ELSE handled
         /\ IF ~body.callback
              THEN /\ pc' = [pc EXCEPT ![w] = IF body.stop THEN "done"
                                                         ELSE "pop"]
                   /\ UNCHANGED <<wparser, wev, ran>>
              ELSE \E opened \in BOOLEAN :
                     IF opened /\ item[1] = "PathSpec"
                       THEN /\ pc' = [pc EXCEPT ![w] = "parse"]
                            /\ wparser' = [wparser EXCEPT ![w] = 1]
                            /\ wev' = [wev EXCEPT ![w] = 0]
                            /\ ran' = ran \cup {<<item[2], 1>>}
                       ELSE /\ pc' = [pc EXCEPT ![w] =
                                        IF body.stop THEN "done" ELSE "pop"]
                            /\ ran' = IF item[1] = "PathSpec"
                                        THEN ran \cup {<<item[2], 0>>}
                                        ELSE ran
                            /\ UNCHANGED <<wparser, wev>>
  /\ UNCHANGED <<storQ, held, counter, lastRaise, epc>>
  /\ UNCHANGED cvars
  /\ UNCHANGED qvars

\* The for loop of ParseFile moves to the next parser, or ParseFile and
\* _ConsumePathSpec return to the consume loop (self._open_files is False).
NextParser(w) ==
  IF wparser[w] < NumParsers
    THEN /\ wparser' = [wparser EXCEPT ![w] = @ + 1]
         /\ wev' = [wev EXCEPT ![w] = 0]
         /\ ran' = ran \cup {<<held[w][2], wparser[w] + 1>>}
         /\ pc' = pc
    ELSE /\ pc' = [pc EXCEPT ![w] = "pop"]
         /\ UNCHANGED <<wparser, wev, ran>>

\* The current parser yields an event object; _ParseEvent sets its
\* attributes, produces it on the storage queue and counts it (no filter
\* object is set).  cap bounds the events of one run.
ParserYieldUpTo(w, cap) ==
  /\ pc[w] = "parse"
  /\ SumCounters(Workers) < cap
  /\ storQ' = ProduceEventObject(
                storQ, <<"Event", held[w][2], wparser[w], wev[w] + 1>>)
  /\ wev' = [wev EXCEPT ![w] = @ + 1]
  /\ counter' = [counter EXCEPT ![w] = @ + 1]
  /\ UNCHANGED <<procQ, pc, held, handled, wparser, ran, lastRaise, epc>>
  /\ UNCHANGED cvars
  /\ UNCHANGED qvars

ParserYield(w) == ParserYieldUpTo(w, MaxStored)

\* The current parser's generator is exhausted.
ParserDone(w) ==
  /\ pc[w] = "parse"
  /\ NextParser(w)
  /\ UNCHANGED <<procQ, storQ, held, handled, counter, lastRaise, epc>>
  /\ UNCHANGED cvars
  /\ UNCHANGED qvars

\* The current parser, or _ParseEvent on one of its events, raises.  An
\* exception caught in ParseFile ends that parser only; one that is not
\* leaves ParseFile, and unless _ConsumePathSpec catches it, the consume
\* loop and Run.
ParserRaise(w) ==
  /\ pc[w] = "parse"
  /\ \E exc \in ExceptionTypes :
       /\ lastRaise' = [lastRaise EXCEPT
                          ![w] = <<held[w][2], wparser[w], exc, wev[w]>>]
       /\ IF CaughtInParseFile(exc)
            THEN NextParser(w)
            ELSE /\ pc' = [pc EXCEPT ![w] = IF CaughtInConsumePathSpec(exc)
                                              THEN "pop" ELSE "raised"]
                 /\ UNCHANGED <<wparser, wev, ran>>
  /\ UNCHANGED <<procQ, storQ, held, handled, counter, epc>>
  /\ UNCHANGED cvars
  /\ UNCHANGED qvars

(***************************************************************************)
(* The engine and the front end.  Engine.Start and Engine.StopThreads are  *)
(* called by plaso/frontend/log2timeline.py but their code is not part of  *)
(* the sources; they are modelled from the specification's description of  *)
(* the Engine: on normal completion it waits for the collector, then for   *)
(* every worker, then signals end-of-input on the storage queue; on        *)
(* interruption it propagates end-of-input through every queue.            *)
(***************************************************************************)
Terminated == {"idle", "done", "raised", "killed"}

\* An engine that waits for the collector only.
EngineMayFinish_NoJoin == cpc # "run"

\* The engine may signal the storage queue: the collector has finished and
\* every worker has exited.
EngineMayFinish ==
  /\ cpc # "run"
  /\ \A w \in Workers : pc[w] \in Terminated

\* Normal completion: Engine.SignalEndOfInputStorageQueue.
EngineFinish ==
  /\ epc = "wait"
  /\ EngineMayFinish
  /\ storQ' = SignalEndOfInput(storQ)
  /\ epc' = "done"
  /\ UNCHANGED <<procQ>>
  /\ UNCHANGED wvars
  /\ UNCHANGED cvars
  /\ UNCHANGED qvars

\* The queues after StopThreads: end-of-input on both.
StopThreadsQueues(pq, sq) ==
  [process |-> SignalEndOfInput(pq), storage |-> SignalEndOfInput(sq)]

\* A consumer process hit by KeyboardInterrupt.  Inside PopItem the
\* exception becomes QueueEmpty and the consume loop breaks; anywhere else
\* it propagates and ends the process.  A consumer at "pop" is entering or
\* leaving PopItem: inPop tells which side of the try block it is on.
InterruptedPc(c, inPop) ==
  IF pc[c] = "blocked" \/ (pc[c] = "pop" /\ inPop)
    THEN IF MT_PopItemInterrupted(<<>>).raised = "QueueEmpty"
           THEN OnQueueEmpty ELSE "killed"
  ELSE IF pc[c] \in {"pop", "got", "parse"} THEN "killed"
  ELSE pc[c]

\* The user interrupts the run (log2timeline.Main catches KeyboardInterrupt
\* and calls CleanUpAfterAbort).  The signal reaches the front end alone
\* (sent to its process id) or, at the same instant, every running process
\* (the terminal's interrupt key signals the whole process group).
KeyboardInterrupt ==
  /\ epc = "wait"
  /\ epc' = "abort"
  /\ \E hit \in {{}, {c \in Consumers : pc[c] \notin Terminated}},
        inPop \in SUBSET Consumers, hitCollector \in BOOLEAN :
       /\ inPop \subseteq hit
       /\ \A c \in inPop : pc[c] = "pop"
       /\ hitCollector = (hit # {} /\ cpc = "run")
       /\ pc' = [c \in Consumers |->
                   IF c \in hit THEN InterruptedPc(c, c \in inPop) ELSE pc[c]]
       /\ cpc' = IF hitCollector THEN "killed" ELSE cpc
  /\ UNCHANGED <<source, plan, cidx, procQ, storQ, held, handled, wparser,
                 wev, counter, ran, lastRaise>>
  /\ UNCHANGED qvars

\* CleanUpAfterAbort: self._engine.StopThreads().
StopThreads ==
  /\ epc = "abort"
  /\ LET qs == StopThreadsQueues(procQ, storQ) IN
       /\ procQ' = qs.process
       /\ storQ' = qs.storage
  /\ epc' = "stopped"
  /\ UNCHANGED wvars
  /\ UNCHANGED cvars
  /\ UNCHANGED qvars

(***************************************************************************)
(* The pipeline: one collector, n workers, the storage consumer and the    *)
(* engine, on a source that Engine.SetSource accepted.                     *)
(***************************************************************************)
PipeKinds == {"file", "dir"}

\* Started with n workers.
Started(n) ==
  /\ QueuesIdle
  /\ RestIdle
  /\ plan = Collect(source)
  /\ cpc = "run"
  /\ cidx = 1
  /\ procQ = <<>>
  /\ storQ = <<>>
  /\ pc = [c \in Consumers |-> IF c <= n THEN "pop" ELSE "idle"]
  /\ held = [c \in Consumers |-> None]
  /\ handled = [c \in Consumers |-> <<>>]
  /\ wparser = [w \in Workers |-> 0]
  /\ wev = [w \in Workers |-> 0]
  /\ counter = [w \in Workers |-> 0]
  /\ ran = {}
  /\ lastRaise = [w \in Workers |-> None]
  /\ epc = "wait"

Init ==
  /\ IsWalkableSource(PipeEntries, {"osdir"}, PipeKinds)
       \/ source = [src |-> "osfile", dirmeta |-> FALSE, parent |-> <<>>,
                    kind |-> <<>>]
  /\ \E n \in 1..NumWorkers : Started(n)

ConsumerNext ==
  \/ \E c \in Consumers : ConsumerBlock(c)
  \/ \E c \in Consumers : ConsumerPop(c)
  \/ StorageGot
  \/ \E w \in Workers : WorkerGot(w)
  \/ \E w \in Workers : ParserYield(w)
  \/ \E w \in Workers : ParserDone(w)

NextRun ==
  \/ CollectorStep
  \/ CollectorReturn
  \/ ConsumerNext
  \/ EngineFinish

Next ==
  \/ NextRun
  \/ KeyboardInterrupt
  \/ StopThreads

\* Every process that can take a step eventually takes one, and a parser's
\* generator ends.
Fairness ==
  /\ WF_vars(CollectorStep)
  /\ WF_vars(CollectorReturn)
  /\ \A c \in Consumers : WF_vars(ConsumerPop(c))
  /\ WF_vars(StorageGot)
  /\ \A w \in Workers : WF_vars(WorkerGot(w)) /\ WF_vars(ParserDone(w))
  /\ WF_vars(EngineFinish)
  /\ WF_vars(StopThreads)

\* A run to normal completion.
SpecRun == Init /\ [][NextRun]_vars

FairRun == SpecRun /\ Fairness

\* A run the user may interrupt.
Spec == Init /\ [][Next]_vars

FairSpec == Spec /\ Fairness

(***************************************************************************)
(* SpecWorker: one worker and the collector, on a directory of files, with *)
(* parsers that may raise.                                                 *)
(***************************************************************************)
WInit ==
  /\ IsWalkableSource(PipeEntries, {"osdir"}, {"file"})
  /\ Started(1)

WNext ==
  \/ CollectorStep
  \/ CollectorReturn
  \/ \E c \in Workers : ConsumerBlock(c)
  \/ \E c \in Workers : ConsumerPop(c)
  \/ \E w \in Workers : WorkerGot(w)
  \/ \E w \in Workers : ParserYield(w)
  \/ \E w \in Workers : ParserDone(w)
  \/ \E w \in Workers : ParserRaise(w)

SpecWorker == WInit /\ [][WNext]_vars

(***************************************************************************)
(* SpecSingle: a run to normal completion with one worker, on a directory  *)
(* tree, with parsers that yield up to MaxYield events and may raise.      *)
(***************************************************************************)
OneInit ==
  /\ IsWalkableSource(PipeEntries, {"osdir"}, PipeKinds)
  /\ Started(1)

OneNext ==
  \/ CollectorStep
  \/ CollectorReturn
  \/ \E c \in Consumers : ConsumerBlock(c)
  \/ \E c \in Consumers : ConsumerPop(c)
  \/ StorageGot
  \/ \E w \in Workers : WorkerGot(w)
  \/ \E w \in Workers : ParserYieldUpTo(w, MaxYield)
  \/ \E w \in Workers : ParserDone(w)
  \/ \E w \in Workers : ParserRaise(w)
  \/ EngineFinish

SpecSingle == OneInit /\ [][OneNext]_vars

(***************************************************************************)
(* SpecOrder: a run to normal completion with NumWorkers workers on a      *)
(* directory of files, with parsers that yield up to MaxOrdered events.    *)
(***************************************************************************)
OrderInit ==
  /\ IsWalkableSource(PipeEntries, {"osdir"}, {"file"})
  /\ Started(NumWorkers)

OrderNext ==
  \/ CollectorStep
  \/ CollectorReturn
  \/ \E c \in Consumers : ConsumerBlock(c)
  \/ \E c \in Consumers : ConsumerPop(c)
  \/ StorageGot
  \/ \E w \in Workers : WorkerGot(w)
  \/ \E w \in Workers : ParserYieldUpTo(w, MaxOrdered)
  \/ \E w \in Workers : ParserDone(w)
  \/ EngineFinish

SpecOrder == OrderInit /\ [][OrderNext]_vars

(***************************************************************************)
(* Preprocessing (plaso/lib/engine.py Engine.PreprocessSource and          *)
(* plaso/preprocessors/interface.py).  A plugin is its SUPPORTED_OS, its   *)
(* WEIGHT and what its GetValue does on this source: it returns a value    *)
(* ("ok") or raises errors.PreProcessFail, IOError or another exception.   *)
(* The ATTRIBUTE of the plugin registered i-th is i.  The class            *)
(* PreProcessList is not part of the sources: GetWeightList and GetWeight  *)
(* are modelled from the specification (the weights in increasing order;   *)
(* the plugins of one platform and weight).                                *)
(***************************************************************************)
Platforms == {"Windows", "Linux"}

Weights == 1..MaxWeight

PluginOutcomes == {"ok", "PreProcessFail", "IOError", "Exception"}

Plugins == [os : Platforms, weight : Weights, outcome : PluginOutcomes]

\* The plugins of a platform and weight, in registration order.
GetWeight(list, platform, weight) ==
  SelectSeq([i \in DOMAIN list |-> i],
            LAMBDA i : list[i].os = platform /\ list[i].weight = weight)

\* The weights that plugins of the platform have, in increasing order.
GetWeightList(list, platform) ==
  SelectSeq([w \in Weights |-> w],
            LAMBDA w : GetWeight(list, platform, w) # <<>>)

RECURSIVE Flatten(_)
Flatten(seqs) ==
  IF seqs = <<>> THEN <<>> ELSE Head(seqs) \o Flatten(Tail(seqs))

\* A single loop over the plugins of the platform as they were registered.
PreSchedule_Registration(list, platform) ==
  SelectSeq([i \in DOMAIN list |-> i], LAMBDA i : list[i].os = platform)

\* The order in which PreprocessSource calls the plugins:
\* for weight in GetWeightList(platform):
\*   for plugin in GetWeight(platform, weight): plugin.Run(searcher)
PreSchedule(list, platform) ==
  LET ws == GetWeightList(list, platform) IN
    Flatten([k \in DOMAIN ws |-> GetWeight(list, platform, ws[k])])

\* A handler that names errors.PreProcessFail only.
PreCaught_NoIOError(exc) == exc = "PreProcessFail"

\* except (IOError, errors.PreProcessFail) around plugin.Run.
PreCaught(exc) == exc \in {"IOError", "PreProcessFail"}

\* PreprocessPlugin.Run: value = self.GetValue(...), then SetValue(ATTRIBUTE,
\* value); an exception of GetValue leaves the attribute as it was.
PluginRun(attribute, outcome, base) ==
  [raised |-> IF outcome = "ok" THEN "none" ELSE outcome,
   base |-> IF outcome = "ok" THEN base \cup {attribute} ELSE base]

\* One pass of the inner loop of PreprocessSource.
PreRunPlugin ==
  /\ prePc = "run"
  /\ LET sched == PreSchedule(preList, prePlatform) IN
       /\ preIdx <= Len(sched)
       /\ LET p == sched[preIdx]
              r == PluginRun(p, preList[p].outcome, kb)
          IN  /\ kb' = r.base
              /\ preLog' = Append(preLog, [plugin |-> p, seen |-> kb])
              /\ prePc' = IF r.raised = "none" \/ PreCaught(r.raised)
                            THEN "run" ELSE "raised"
  /\ preIdx' = preIdx + 1
  /\ UNCHANGED <<preList, prePlatform>>
  /\ UNCHANGED nonprevars

\* The loops are over: PreprocessSource returns.
PreReturn ==
  /\ prePc = "run"
  /\ preIdx > Len(PreSchedule(preList, prePlatform))
  /\ prePc' = "returned"
  /\ UNCHANGED <<preList, prePlatform, preIdx, kb, preLog>>
  /\ UNCHANGED nonprevars

(***************************************************************************)
(* SpecPre: PreprocessSource on every registration of NumPlugins plugins.  *)
(***************************************************************************)
PInit ==
  /\ QueuesIdle
  /\ PipeIdle
  /\ GenIdle
  /\ SmartIdle
  /\ FilterIdle
  /\ EnrichIdle
  /\ GuessIdle
  /\ CountIdle
  /\ EngineIdle
  /\ preList \in [1..NumPlugins -> Plugins]
  /\ prePlatform \in Platforms
  /\ prePc = "run"
  /\ preIdx = 1
  /\ kb = {}
  /\ preLog = <<>>

PNext == PreRunPlugin \/ PreReturn

SpecPre == PInit /\ [][PNext]_vars

(***************************************************************************)
(* PlasoWorker.SmartOpenFiles (plaso/lib/worker.py).  The file handed over *)
(* is file 1; members[f] are the path specifications SmartOpenFile yields  *)
(* for file f (the members of a recognised container, none for any other   *)
(* file), opens[f] is whether OpenPFileEntry of a member f succeeds, and   *)
(* reads[f] whether SmartOpenFile can open and read f (it raises IOError   *)
(* otherwise).  A file may be a member of itself or of its own member: the *)
(* nesting is then without end.  A generator of the recursion is a frame   *)
(* [file, depth, idx], idx its place in the for loop.                      *)
(***************************************************************************)
SmartFiles == 1..NumContainers

MemberLists == UNION { [1..n -> SmartFiles] : n \in 0..MaxMembers }

\* A depth test that lets one more level through.
DepthReached_OffByOne(depth) == depth > MAX_FILE_DEPTH

\* if depth >= cls.MAX_FILE_DEPTH: return
DepthReached(depth) == depth >= MAX_FILE_DEPTH

\* One step of the innermost generator of SmartOpenFiles.
SmartStep ==
  /\ smartPc = "run"
  /\ smartStack # <<>>
  /\ LET n == Len(smartStack)
         f == smartStack[n]
         outer == SubSeq(smartStack, 1, n - 1)
         members == smartInput.members[f.file]
     IN
     \* the depth test, or the for loop is through: the generator returns
     IF DepthReached(f.depth)
          \/ (smartInput.reads[f.file] /\ f.idx > Len(members))
       THEN /\ smartStack' = outer
            /\ smartPc' = IF outer = <<>> THEN "done" ELSE "run"
            /\ UNCHANGED smartOut
     \* cls.SmartOpenFile(file_entry) raises IOError: no generator of the
     \* recursion catches it
     ELSE IF ~smartInput.reads[f.file]
       THEN /\ smartStack' = <<>>
            /\ smartPc' = "raised"
            /\ UNCHANGED smartOut
     \* OpenPFileEntry raises IOError: continue
     ELSE IF ~smartInput.opens[members[f.idx]]
       THEN /\ smartStack' = Append(outer, [f EXCEPT !.idx = f.idx + 1])
            /\ UNCHANGED <<smartOut, smartPc>>
     \* yield new_file_entry, then SmartOpenFiles(new_file_entry, depth + 1)
     ELSE /\ smartOut' = Append(smartOut, <<members[f.idx], f.depth + 1>>)
          /\ smartStack' = Append(Append(outer, [f EXCEPT !.idx = f.idx + 1]),
                                  [file |-> members[f.idx],
                                   depth |-> f.depth + 1, idx |-> 1])
          /\ UNCHANGED smartPc
  /\ UNCHANGED smartInput
  /\ UNCHANGED nonsmartvars

(***************************************************************************)
(* SpecSmart: SmartOpenFiles(file 1) on every content of NumContainers     *)
(* files; FairSmart: its caller's for loop takes every entry.              *)
(***************************************************************************)
SInit ==
  /\ QueuesIdle
  /\ PipeIdle
  /\ PreIdle
  /\ GenIdle
  /\ FilterIdle
  /\ EnrichIdle
  /\ GuessIdle
  /\ CountIdle
  /\ EngineIdle
  /\ smartInput \in [members : [SmartFiles -> MemberLists],
                     opens : [SmartFiles -> BOOLEAN],
                     reads : [SmartFiles -> BOOLEAN]]
  /\ smartStack = << [file |-> 1, depth |-> 0, idx |-> 1] >>
  /\ smartOut = <<>>
  /\ smartPc = "run"

SNext == SmartStep

SpecSmart == SInit /\ [][SNext]_vars

FairSmart == SpecSmart /\ WF_vars(SmartStep)

(***************************************************************************)
(* The event filter.  Three places of the repository decide whether an     *)
(* enriched event goes to the queue towards storage:                       *)
(*   EventExtractionWorker._ParseEvent   plaso/engine/worker.py            *)
(*   PlasoWorker._ParseEvent             plaso/lib/worker.py               *)
(*   ParserContext.ProduceEvent          plaso/parsers/context.py          *)
(* An event is [id, matches], matches being what filter.Matches returns    *)
(* for it.                                                                 *)
(***************************************************************************)
FilterObjects == {"none", "filter"}

Matches(event_object) == event_object.matches

\* if not self._filter_object or self._filter_object.Matches(event_object)
WorkerParseEventPushes(filter_object, event_object) ==
  filter_object = "none" \/ Matches(event_object)

\* if not self._filter: AddEvent; else: if self._filter.Matches(...): AddEvent
PlasoWorkerParseEventPushes(filter_object, event_object) ==
  IF filter_object = "none" THEN TRUE ELSE Matches(event_object)

\* ParserContext.MatchesFilter: self._filter_object and Matches(event_object)
MatchesFilter(filter_object, event_object) ==
  filter_object # "none" /\ Matches(event_object)

\* ParserContext.ProduceEvent: if self.MatchesFilter(event_object): return
ProduceEventPushes(filter_object, event_object) ==
  ~MatchesFilter(filter_object, event_object)

\* One enriched event reaches the filter test of each of the three places.
FilterEvent ==
  /\ Len(evFed) < MaxFiltered
  /\ \E m \in BOOLEAN :
       LET event_object == [id |-> Len(evFed) + 1, matches |-> m] IN
         /\ evFed' = Append(evFed, event_object)
         /\ IF WorkerParseEventPushes(filterObject, event_object)
              THEN /\ wkQueue' = MT_PushItem(wkQueue, event_object)
                   /\ wkCounter' = wkCounter + 1
              ELSE UNCHANGED <<wkQueue, wkCounter>>
         /\ pwQueue' = IF PlasoWorkerParseEventPushes(filterObject, event_object)
                         THEN Append(pwQueue, event_object) ELSE pwQueue
         /\ IF ProduceEventPushes(filterObject, event_object)
              THEN /\ ctxQueue' = MT_PushItem(ctxQueue, event_object)
                   /\ ctxCounter' = ctxCounter + 1
              ELSE UNCHANGED <<ctxQueue, ctxCounter>>
  /\ UNCHANGED filterObject
  /\ UNCHANGED nonfltvars

\* What self._queue.PushItem does for the producer: it returns, raises the
\* ValueError that ProduceEventObject provides for, or raises otherwise.
PushOutcomes == {"pushed", "ValueError", "Exception"}

\* EventObjectQueueProducer.ProduceEventObject on a queue whose PushItem
\* has the given outcome: ValueError is logged and the call returns, any
\* other exception leaves the call.
ProduceEventObjectResult(q, event_object, outcome) ==
  IF outcome = "pushed"
    THEN [queue |-> MT_PushItem(q, event_object), raised |-> "none"]
  ELSE IF outcome = "ValueError"
    THEN [queue |-> q, raised |-> "none"]
  ELSE [queue |-> q, raised |-> outcome]

\* One enriched event reaches EventExtractionWorker._ParseEvent and
\* ParserContext.ProduceEvent; the counter is incremented by the statement
\* after ProduceEventObject, which is reached when the call returns.
CountEvent ==
  /\ Len(evFed) < MaxFiltered
  /\ \E m \in BOOLEAN, outcome \in PushOutcomes :
       LET event_object == [id |-> Len(evFed) + 1, matches |-> m]
           wk == ProduceEventObjectResult(wkQueue, event_object, outcome)
           ctx == ProduceEventObjectResult(ctxQueue, event_object, outcome)
       IN  /\ evFed' = Append(evFed, event_object)
           /\ IF WorkerParseEventPushes(filterObject, event_object)
                THEN /\ wkQueue' = wk.queue
                     /\ wkCounter' = IF wk.raised = "none"
                                       THEN wkCounter + 1 ELSE wkCounter
                ELSE UNCHANGED <<wkQueue, wkCounter>>
           /\ IF ProduceEventPushes(filterObject, event_object)
                THEN /\ ctxQueue' = ctx.queue
                     /\ ctxCounter' = IF ctx.raised = "none"
                                        THEN ctxCounter + 1 ELSE ctxCounter
                ELSE UNCHANGED <<ctxQueue, ctxCounter>>
  /\ UNCHANGED <<filterObject, pwQueue>>
  /\ UNCHANGED nonfltvars

(***************************************************************************)
(* SpecFilter: the three places fed the same events, with and without a    *)
(* filter object.                                                          *)
(***************************************************************************)
FInit ==
  /\ QueuesIdle
  /\ PipeIdle
  /\ PreIdle
  /\ GenIdle
  /\ SmartIdle
  /\ EnrichIdle
  /\ GuessIdle
  /\ CountIdle
  /\ EngineIdle
  /\ filterObject \in FilterObjects
  /\ evFed = <<>>
  /\ wkQueue = <<>>
  /\ wkCounter = 0
  /\ pwQueue = <<>>
  /\ ctxQueue = <<>>
  /\ ctxCounter = 0

FNext == FilterEvent

SpecFilter == FInit /\ [][FNext]_vars

\* SpecProduce: the two counting producers on a queue whose PushItem may
\* fail.
ProduceNext == CountEvent

SpecProduce == FInit /\ [][ProduceNext]_vars

(***************************************************************************)
(* Event enrichment: EventExtractionWorker._ParseEvent                     *)
(* (plaso/engine/worker.py), PlasoWorker._ParseEvent (plaso/lib/worker.py) *)
(* and ParserContext.ProcessEvent (plaso/parsers/context.py).  An          *)
(* attribute of the event object is "absent" or carries the value the      *)
(* parser set; the environment holds the hostname of the preprocessing     *)
(* object (knowledge base), the user name the identity table returns for   *)
(* the event's user_sid, and the inode of the file entry's stat object,    *)
(* each "absent" when there is none.                                       *)
(***************************************************************************)
EnrichEvents ==
  [hostname : {"absent", "parser"}, username : {"absent", "parser"},
   user_sid : {"absent", "sid"}, inode : {"absent", "parser"}]

EnrichEnvs ==
  [hostname : {"absent", "kb"}, user : {"absent", "kb"},
   ino : {"absent", "stat"}]

\* EventExtractionWorker._ParseEvent, the attributes set from pre_obj, the
\* stat object and the user mapping.
WorkerParseEvent(env, ev) ==
  [ev EXCEPT
     \* if hasattr(self._pre_obj, 'hostname'): event_object.hostname = ...
     !.hostname = IF env.hostname # "absent" THEN env.hostname ELSE @,
     \* if not hasattr(event_object, 'inode') and hasattr(stat_obj, 'ino')
     !.inode = IF @ = "absent" /\ env.ino # "absent" THEN env.ino ELSE @,
     \* if getattr(event_object, 'user_sid', None) and self._user_mapping:
     \*   username = self._user_mapping.get(...); if username: ...
     !.username = IF ev.user_sid # "absent" /\ env.user # "absent"
                    THEN env.user ELSE @]

\* PlasoWorker._ParseEvent: the same three statements.
PlasoWorkerParseEvent(env, ev) ==
  [ev EXCEPT
     !.hostname = IF env.hostname # "absent" THEN env.hostname ELSE @,
     !.inode = IF @ = "absent" /\ env.ino # "absent" THEN env.ino ELSE @,
     !.username = IF ev.user_sid # "absent" /\ env.user # "absent"
                    THEN env.user ELSE @]

\* ParserContext.ProcessEvent with a file entry.
ProcessEvent(env, ev) ==
  [ev EXCEPT
     \* if not hasattr(event_object, 'inode') and inode_number
     !.inode = IF @ = "absent" /\ env.ino # "absent" THEN env.ino ELSE @,
     \* if not getattr(event_object, 'hostname', None) and self.hostname
     !.hostname = IF @ = "absent" /\ env.hostname # "absent"
                    THEN env.hostname ELSE @,
     \* if not getattr(event_object, 'username', None): ... if username
     !.username = IF @ = "absent" /\ env.user # "absent"
                    THEN env.user ELSE @]

\* A parser yields an event object and each routine enriches its own copy.
EnrichEvent ==
  /\ enrOut = <<>>
  /\ enrOut' = << [worker |-> WorkerParseEvent(enrEnv, enrEvent),
                   plaso |-> PlasoWorkerParseEvent(enrEnv, enrEvent),
                   context |-> ProcessEvent(enrEnv, enrEvent)] >>
  /\ UNCHANGED <<enrEnv, enrEvent>>
  /\ UNCHANGED nonenrvars

EnrInit ==
  /\ QueuesIdle
  /\ PipeIdle
  /\ PreIdle
  /\ GenIdle
  /\ SmartIdle
  /\ FilterIdle
  /\ GuessIdle
  /\ CountIdle
  /\ EngineIdle
  /\ enrEnv \in EnrichEnvs
  /\ enrEvent \in EnrichEvents
  /\ enrOut = <<>>

EnrNext == EnrichEvent

SpecEnrich == EnrInit /\ [][EnrNext]_vars

(***************************************************************************)
(* GuessOS.  plaso/preprocessors/interface.py hands six find               *)
(* specifications to the searcher in one call and looks at the relative    *)
(* paths of everything it returns; plaso/lib/preprocess.py asks its        *)
(* collector for one pattern after the other.  A relative path is the      *)
(* directory it names, the path separator of the host and whether it is    *)
(* spelled with capitals on disk (the find specifications are case         *)
(* insensitive).                                                           *)
(***************************************************************************)
WindowsDirs ==
  {"windows/system32", "winnt/system32", "winnt35/system32",
   "wtsrv/system32"}

SignatureDirs == {"etc", "system/library"} \cup WindowsDirs

Locations == [dir : SignatureDirs, sep : {"/", "\\"}, capitals : BOOLEAN]

\* relative_path.lower()
Lower(loc) == [loc EXCEPT !.capitals = FALSE]

\* Every sequence of at most n different locations.
FoundLists(n) ==
  UNION { { f \in [1..k -> Locations] :
              \A a, b \in 1..k : f[a] = f[b] => a = b } : k \in 0..n }

\* A GuessOS that answers for the first location the searcher returned.
GuessOS_FirstMatch(found) ==
  IF found = <<>> THEN "None"
  ELSE IF Lower(found[1]).dir \in WindowsDirs THEN "Windows"
  ELSE IF Lower(found[1]) = [dir |-> "system/library", sep |-> "/",
                             capitals |-> FALSE] THEN "MacOSX"
  ELSE IF Lower(found[1]) = [dir |-> "etc", sep |-> "/", capitals |-> FALSE]
    THEN "Linux"
  ELSE "None"

\* preprocessors/interface.py GuessOS(searcher), found being what
\* searcher.Find(find_specs) returns.
GuessOS(found) ==
  LET locations == {Lower(found[i]) : i \in DOMAIN found}
      windows_locations ==
        [dir : WindowsDirs, sep : {"/", "\\"}, capitals : {FALSE}]
  IN  IF windows_locations \cap locations # {} THEN "Windows"
      ELSE IF [dir |-> "system/library", sep |-> "/", capitals |-> FALSE]
                \in locations THEN "MacOSX"
      ELSE IF [dir |-> "etc", sep |-> "/", capitals |-> FALSE] \in locations
        THEN "Linux"
      ELSE "None"

\* What col_obj.FindPaths(pattern) does: it returns paths, returns none, or
\* raises OSError or errors.PathNotFound.
FindPathsOutcomes == {"found", "none", "raised"}

\* lib/preprocess.py GuessOS(col_obj): an exception of FindPaths is passed
\* over and the next pattern is tried.
GuessOS_Collector(col) ==
  IF col.windows = "found" THEN "Windows"
  ELSE IF col.macosx = "found" THEN "MacOSX"
  ELSE IF col.linux = "found" THEN "Linux"
  ELSE "None"

\* Both functions are called on their source.
GuessStep ==
  /\ guessed = <<>>
  /\ guessed' = << [searcher |-> GuessOS(guessFound),
                    collector |-> GuessOS_Collector(guessOld)] >>
  /\ UNCHANGED <<guessFound, guessOld>>
  /\ UNCHANGED nonguessvars

GuessInit ==
  /\ QueuesIdle
  /\ PipeIdle
  /\ PreIdle
  /\ GenIdle
  /\ SmartIdle
  /\ FilterIdle
  /\ EnrichIdle
  /\ CountIdle
  /\ EngineIdle
  /\ guessFound \in FoundLists(MaxFound)
  /\ guessOld \in [windows : FindPathsOutcomes, macosx : FindPathsOutcomes,
                   linux : FindPathsOutcomes]
  /\ guessed = <<>>

GuessNext == GuessStep

SpecGuess == GuessInit /\ [][GuessNext]_vars

(***************************************************************************)
(* The default worker count (frontend/log2timeline.py Main).               *)
(***************************************************************************)
\* if options.workers < 1: cpus = multiprocessing.cpu_count();
\* options.workers = cpus; if cpus > 3: options.workers -= 3
DefaultWorkers(workers, cpus) ==
  IF workers < 1
    THEN IF cpus > 3 THEN cpus - 3 ELSE cpus
    ELSE workers

\* Main sets options.workers.
SetWorkers ==
  /\ workerCount = <<>>
  /\ workerCount' = <<DefaultWorkers(optWorkers, cpuCount)>>
  /\ UNCHANGED <<optWorkers, cpuCount>>
  /\ UNCHANGED noncntvars

CountInit ==
  /\ QueuesIdle
  /\ PipeIdle
  /\ PreIdle
  /\ GenIdle
  /\ SmartIdle
  /\ FilterIdle
  /\ EnrichIdle
  /\ GuessIdle
  /\ EngineIdle
  /\ optWorkers \in -1..MaxOption
  /\ cpuCount \in 1..MaxCpus
  /\ workerCount = <<>>

CountNext == SetWorkers

SpecCount == CountInit /\ [][CountNext]_vars

(***************************************************************************)
(* The engine object (plaso/lib/engine.py): SetSource, CreateCollector and *)
(* GetSourceFileSystemSearcher, each called at most once, in any order,    *)
(* and the collector that CreateCollector returns running its Collect.     *)
(***************************************************************************)
\* self._source_path_spec after SetSource(source_path_spec): it is assigned
\* before the file entry is opened and checked.
SetSourcePathSpec(sc) == "path_spec"

\* FileSystemCollector.collect_directory_metadata of the collector that
\* CreateCollector(include_directory_stat, ...) returns: __init__ sets it
\* to True, and CreateCollector assigns include_directory_stat to an
\* attribute of the Collector object, which no code reads.
CollectDirectoryMetadata(include_directory_stat) == TRUE

\* Engine.SetSource(source_path_spec).
EngineSetSource ==
  /\ engSetSource = "uncalled"
  /\ engPathSpec' = SetSourcePathSpec(source)
  /\ engSetSource' = SetSource(source)
  /\ UNCHANGED <<includeStat, engCreated, engSearcher>>
  /\ UNCHANGED <<queueVars, pipeVars, prevars, genvars, smartvars, fltvars,
                 enrvars, guessvars, cntvars>>

\* Engine.CreateCollector(include_directory_stat, None, None); the caller
\* then runs the collector it got.
EngineCreateCollector ==
  /\ engCreated = "uncalled"
  /\ \E include_directory_stat \in BOOLEAN :
       /\ includeStat' = include_directory_stat
       /\ IF engPathSpec = "None"
            THEN /\ engCreated' = "RuntimeError"
                 /\ UNCHANGED <<source, plan, cpc>>
            ELSE /\ engCreated' = "collector"
                 /\ source' = [source EXCEPT !.dirmeta =
                      CollectDirectoryMetadata(include_directory_stat)]
                 /\ plan' = Collect(source')
                 /\ cpc' = "run"
  /\ UNCHANGED <<engPathSpec, engSetSource, engSearcher>>
  /\ UNCHANGED <<cidx, procQ, storQ, epc>>
  /\ UNCHANGED wvars
  /\ UNCHANGED <<queueVars, prevars, genvars, smartvars, fltvars, enrvars,
                 guessvars, cntvars>>

\* Engine.GetSourceFileSystemSearcher().
EngineGetSearcher ==
  /\ engSearcher = "uncalled"
  /\ engSearcher' = IF engPathSpec = "None" THEN "RuntimeError"
                                            ELSE "searcher"
  /\ UNCHANGED <<engPathSpec, engSetSource, includeStat, engCreated>>
  /\ UNCHANGED <<queueVars, pipeVars, prevars, genvars, smartvars, fltvars,
                 enrvars, guessvars, cntvars>>

\* A new engine and the source its caller is about to hand it.
EngineInit ==
  /\ QueuesIdle
  /\ RestIdle
  /\ IsWalkableSource(PipeEntries, WalkedSources, PipeKinds)
       \/ source \in FlatSources
  /\ source.dirmeta = FALSE
  /\ plan = [ops |-> <<>>, outcome |-> "returned"]
  /\ cpc = "idle"
  /\ cidx = 1
  /\ procQ = <<>>
  /\ storQ = <<>>
  /\ pc = [c \in Consumers |-> "idle"]
  /\ held = [c \in Consumers |-> None]
  /\ handled = [c \in Consumers |-> <<>>]
  /\ wparser = [w \in Workers |-> 0]
  /\ wev = [w \in Workers |-> 0]
  /\ counter = [w \in Workers |-> 0]
  /\ ran = {}
  /\ lastRaise = [w \in Workers |-> None]
  /\ epc = "idle"

EngineNext ==
  \/ EngineSetSource
  \/ EngineCreateCollector
  \/ EngineGetSearcher
  \/ CollectorStep
  \/ CollectorReturn

SpecEngine == EngineInit /\ [][EngineNext]_vars

(***************************************************************************)
(* SpecQueue: one caller drives the three queue objects side by side.      *)
(***************************************************************************)
QItems == {<<"Item", v>> : v \in 1..NumValues}

QInit == QueuesIdle /\ PipeIdle /\ RestIdle

\* queue.PushItem(item) on each object (Queue(item) on the earlier class).
QPushItem ==
  /\ Len(qPushed) < MaxPushes
  /\ \E item \in QItems :
       /\ stQueue' = ST_PushItem(stQueue, item)
       /\ mtQueue' = MT_PushItem(mtQueue, item)
       /\ oldQueue' = Old_Queue(oldQueue, FALSE, item)
       /\ qPushed' = Append(qPushed, item)
  /\ UNCHANGED <<stPopped, mtPopped, oldPopped, stLast>>
  /\ UNCHANGED pvars

\* queue.PopItem() on each object while it holds an item.
QPopItem ==
  /\ MT_CanPop(mtQueue)
  /\ LET st == ST_PopItem(stQueue)
         mt == MT_PopItem(mtQueue)
         old == Old_PopItems(oldQueue)
     IN  /\ stQueue' = st.queue
         /\ mtQueue' = mt.queue
         /\ oldQueue' = old.queue
         /\ stPopped' = Append(stPopped, st.item)
         /\ mtPopped' = Append(mtPopped, mt.item)
         /\ oldPopped' = Append(oldPopped, old.item)
         /\ stLast' = [raised |-> st.raised, item |-> st.item,
                       before |-> ST_Len(stQueue)]
  /\ UNCHANGED qPushed
  /\ UNCHANGED pvars

\* SingleThreadedQueue.PopItem() on the empty queue (MultiThreadedQueue
\* would block, so the caller does not call it there).
QPopEmpty ==
  /\ ST_Len(stQueue) = 0
  /\ LET st == ST_PopItem(stQueue)
     IN  /\ stQueue' = st.queue
         /\ stLast' = [raised |-> st.raised, item |-> st.item,
                       before |-> ST_Len(stQueue)]
  /\ UNCHANGED <<mtQueue, oldQueue, qPushed, stPopped, mtPopped, oldPopped>>
  /\ UNCHANGED pvars

QNext == QPushItem \/ QPopItem \/ QPopEmpty

SpecQueue == QInit /\ [][QNext]_vars

(***************************************************************************)
(* Claims about the consume loops and the pipeline.                        *)
(***************************************************************************)
\* The queue a consumer reads, in this state and in the next.
QueueNow(c) == IF QueueOf(c) = "process" THEN procQ ELSE storQ

QueueNext(c) == IF QueueOf(c) = "process" THEN procQ' ELSE storQ'

Occurrences(seq, x) == Cardinality({i \in DOMAIN seq : seq[i] = x})

ActiveWorkers == {w \in Workers : pc[w] # "idle"}

\* The consumer left its loop because it popped the sentinel.
SawEndOfInput(c) == pc[c] = "done" /\ IsEndOfInput(held[c])

\* C1: a consume loop that popped the EndOfInput sentinel pushes it back on
\* the same queue before the loop returns, and never passes the sentinel to
\* its _Consume callback.
C1_SentinelPushedBackNotConsumed ==
  /\ [](\A c \in Consumers :
          \A i \in DOMAIN handled[c] : ~IsEndOfInput(handled[c][i]))
  /\ [][\A c \in Consumers :
          (pc[c] = "got" /\ IsEndOfInput(held[c]) /\ pc'[c] # "got")
            => /\ pc'[c] = "done"
               /\ QueueNext(c) = Append(QueueNow(c), QueueEndOfInput)
               /\ handled'[c] = handled[c]]_vars

\* Two workers and the storage consumer each popped the sentinel and left,
\* after items went to the callbacks.
C1_Witness ==
  /\ \A c \in Consumers : SawEndOfInput(c)
  /\ Len(handled[Storage]) >= 1
  /\ \E w \in Workers : Len(handled[w]) >= 1
  /\ procQ = <<QueueEndOfInput>>
  /\ storQ = <<QueueEndOfInput>>

\* C2: with any number of workers consuming the process queue, once the
\* collector has pushed its path specifications and one EndOfInput, every
\* worker eventually pops the sentinel and leaves its loop (fair
\* scheduling, parsers that return).
C2_EveryConsumerTerminates ==
  <>[](\A w \in ActiveWorkers : SawEndOfInput(w))

\* Two workers have left after the collector pushed two path specifications.
C2_Witness ==
  /\ ActiveWorkers = Workers
  /\ \A w \in Workers : SawEndOfInput(w)
  /\ Len(plan.ops) >= 3
  /\ cpc = "done"

\* Path specifications the collector has pushed so far.
PushedCount(p) ==
  Cardinality({i \in 1..(cidx - 1) : plan.ops[i] = <<"process", p>>})

RECURSIVE HandledCount(_, _)
HandledCount(ws, p) ==
  IF ws = {} THEN 0
  ELSE LET w == CHOOSE x \in ws : TRUE IN
         Occurrences(handled[w], p) + HandledCount(ws \ {w}, p)

\* C3: every path specification the collector pushed is on the queue, in one
\* worker's hands, or was passed to _ConsumePathSpec, exactly once in all;
\* when every worker has left its loop each one was passed to
\* _ConsumePathSpec exactly once.
C3_EachPathSpecConsumedOnce ==
  \A e \in 0..PipeEntries :
    LET p == PathSpec(e) IN
      /\ Occurrences(procQ, p)
           + Cardinality({w \in Workers : pc[w] = "got" /\ held[w] = p})
           + HandledCount(Workers, p) = PushedCount(p)
      /\ PushedCount(p) <= 1
      /\ (\A w \in ActiveWorkers : pc[w] = "done")
           => HandledCount(Workers, p) = PushedCount(p)

\* Both workers have left and each consumed a path specification.
C3_Witness ==
  /\ \A w \in Workers : SawEndOfInput(w) /\ Len(handled[w]) >= 1
  /\ cpc = "done"

\* Every file a worker has finished with had every parser run on it, or had
\* no file entry.
FinishedFilesFullyParsed(w) ==
  \A i \in DOMAIN handled[w] :
    (i < Len(handled[w]) \/ pc[w] # "parse")
      => LET f == handled[w][i][2] IN
           \/ <<f, 0>> \in ran
           \/ \A p \in 1..NumParsers : <<f, p>> \in ran

C5_StorageSentinelAfterAllEvents ==
  /\ epc = "done" => (cpc # "run" /\ \A w \in Workers : pc[w] \in Terminated)
  /\ \A i \in DOMAIN storQ :
       IsEndOfInput(storQ[i]) => i = Len(storQ)
  /\ (\E i \in DOMAIN storQ : IsEndOfInput(storQ[i])) => epc = "done"
  /\ IsEndOfInput(held[Storage]) => epc = "done"
  /\ pc[Storage] = "done" => storQ = <<QueueEndOfInput>>

\* The storage consumer has left after consuming a directory's stat event
\* and a parser's event.
C5_Witness ==
  /\ SawEndOfInput(Storage)
  /\ \E i \in DOMAIN handled[Storage] : handled[Storage][i][3] = 0
  /\ \E i \in DOMAIN handled[Storage] : handled[Storage][i][3] > 0

\* The sentinel is on the queue or in the hands of a consumer about to push
\* it back.
SentinelAvailable(q, cs) ==
  \/ \E i \in DOMAIN q : IsEndOfInput(q[i])
  \/ \E c \in cs : pc[c] = "got" /\ IsEndOfInput(held[c])

\* C6: on KeyboardInterrupt every worker blocked in PopItem that receives
\* it leaves its loop; once the engine has stopped the threads the sentinel
\* is on the process queue and on the storage queue (or with a consumer that
\* pushes it back), and every consumer of either queue eventually exits.
C6_InterruptLeavesNoConsumerWaiting ==
  /\ [][(epc = "wait" /\ epc' = "abort")
          => \A w \in Workers :
               (pc[w] = "blocked" /\ pc'[w] # "blocked") => pc'[w] = "done"]_vars
  /\ [](epc = "stopped" =>
          /\ (\E w \in Workers : pc[w] \notin Terminated)
               => SentinelAvailable(procQ, Workers)
          /\ pc[Storage] \notin Terminated
               => SentinelAvailable(storQ, {Storage}))
  /\ (epc = "abort") ~> (\A c \in Consumers : pc[c] \in Terminated)

\* The interrupt ended the collector and a worker that had processed a path
\* specification and was waiting in PopItem; the engine then put the
\* sentinel on both queues.
C6_Witness ==
  /\ epc = "stopped"
  /\ cpc = "killed"
  /\ \E w \in Workers :
       pc[w] = "done" /\ ~IsEndOfInput(held[w]) /\ Len(handled[w]) >= 1
  /\ \E i \in DOMAIN procQ : IsEndOfInput(procQ[i])
  /\ \E i \in DOMAIN storQ : IsEndOfInput(storQ[i])

(***************************************************************************)
(* Claims about preprocessing (SpecPre).                                   *)
(***************************************************************************)
PluginOf(i) == preList[preLog[i].plugin]

\* The plugins of the guessed platform.
PlatformPlugins == {q \in DOMAIN preList : preList[q].os = prePlatform}

RanBefore(q, i) == \E j \in 1..(i - 1) : preLog[j].plugin = q

\* C11: the plugins of the guessed platform run in non-decreasing weight
\* order whatever the registration order: when a plugin's Run is called
\* every plugin of a lower weight has run, and the attribute of each one
\* that succeeded is set.
C11_PluginsRunInWeightOrder ==
  /\ \A i \in DOMAIN preLog : preLog[i].plugin \in PlatformPlugins
  /\ \A i, j \in DOMAIN preLog :
       i < j => PluginOf(i).weight <= PluginOf(j).weight
  /\ \A i \in DOMAIN preLog :
       \A q \in PlatformPlugins :
         preList[q].weight < PluginOf(i).weight
           => /\ RanBefore(q, i)
              /\ preList[q].outcome = "ok" => q \in preLog[i].seen
  /\ prePc = "returned" =>
       \A q \in PlatformPlugins : RanBefore(q, Len(preLog) + 1)

\* A weight-2 plugin registered first ran after the weight-1 plugin
\* registered second and found its attribute set.
C11_Witness ==
  /\ prePc = "returned"
  /\ preList[1].weight = 2 /\ preList[2].weight = 1
  /\ Len(preLog) >= 2
  /\ preLog[1].plugin = 2 /\ preLog[2].plugin = 1
  /\ preLog[2].seen = {2}

\* C12: a plugin whose Run raises PreProcessFail or IOError leaves the
\* knowledge base as it was and the loop running; every other plugin of the
\* platform is still run, only attributes of plugins that succeeded are set,
\* and PreprocessSource raises for no plugin that failed that way.
C12_FailedPluginIsSkipped ==
  /\ [](\A a \in kb : preList[a].outcome = "ok")
  /\ [](prePc = "returned" =>
          /\ \A q \in PlatformPlugins : RanBefore(q, Len(preLog) + 1)
          /\ \A q \in PlatformPlugins : preList[q].outcome = "ok" => q \in kb)
  /\ [](prePc = "raised" =>
          PluginOf(Len(preLog)).outcome \notin {"PreProcessFail", "IOError"})
  /\ [][(preLog' # preLog
           /\ preList[preLog'[Len(preLog')].plugin].outcome
                 \in {"PreProcessFail", "IOError"})
          => kb' = kb /\ prePc' = "run"]_vars

\* A weight-1 plugin raised PreProcessFail, another raised IOError, and the
\* weight-2 plugin after them set its attribute before PreprocessSource
\* returned.
C12_Witness ==
  /\ prePc = "returned"
  /\ Len(preLog) = 3
  /\ PluginOf(1).outcome = "PreProcessFail" /\ PluginOf(1).weight = 1
  /\ PluginOf(2).outcome = "IOError" /\ PluginOf(2).weight = 1
  /\ PluginOf(3).outcome = "ok" /\ PluginOf(3).weight = 2
  /\ kb = {preLog[3].plugin}

(***************************************************************************)
(* Claims about the queue classes (SpecQueue).                             *)
(***************************************************************************)
\* C8: on a single-threaded queue successive pops return the items in
\* exactly the order they were pushed (the k-th pop returns the k-th push),
\* for both single-threaded queue classes of the repository.
C8_PopsInPushOrder ==
  /\ stPopped = SubSeq(qPushed, 1, Len(stPopped))
  /\ oldPopped = SubSeq(qPushed, 1, Len(oldPopped))

\* C9: SingleThreadedQueue.PopItem on a queue without items raises
\* QueueEmpty and leaves the queue as it was (empty); on a queue with items
\* it returns the oldest item (the earliest push not yet popped), removes
\* it and makes the length one less.
C9_PopItemContract ==
  [][(QPopItem \/ QPopEmpty) =>
       IF ST_Len(stQueue) = 0
         THEN /\ stLast'.raised = "QueueEmpty"
              /\ stQueue' = stQueue
              /\ ST_Len(stQueue') = 0
         ELSE /\ stLast'.raised = "none"
              /\ stLast'.item = qPushed[Len(stPopped) + 1]
              /\ ST_Len(stQueue') = ST_Len(stQueue) - 1
              /\ stQueue' = SubSeq(qPushed, Len(stPopped) + 2, Len(qPushed))
    ]_vars

\* C9 witness: a PopItem returned an item from a queue holding several, and
\* the last PopItem, on the emptied queue, raised QueueEmpty.
C9_Witness ==
  /\ Len(stPopped) >= 2
  /\ stLast.raised = "QueueEmpty"
  /\ stLast.before = 0

\* C10: run side by side on the same calls the two queue classes return the
\* same items, and IsEmpty() gives the same answer in both: true exactly
\* when the queue holds no items.
C10_SameContract ==
  /\ stPopped = mtPopped
  /\ Truthy(ST_IsEmpty(stQueue)) <=> MT_IsEmpty(mtQueue)
  /\ MT_IsEmpty(mtQueue) <=> Len(mtQueue) = 0
  /\ Truthy(ST_IsEmpty(stQueue)) <=> Len(stQueue) = 0

(***************************************************************************)
(* Claims about the collector (SpecCollect).                               *)
(***************************************************************************)
\* Whether directory d is reached from the root through directories that
\* are allocated, are no links and can be listed.
RECURSIVE C7_DirReachable(_, _)
C7_DirReachable(sc, d) ==
  \/ d = 0
  \/ /\ sc.kind[d] = "dir"
     /\ C7_DirReachable(sc, sc.parent[d])

\* The allocated, non-link files reachable from the source.
C7_ReachableFiles(sc) ==
  IF sc.src \in WalkedSources
    THEN { e \in DOMAIN sc.kind :
             sc.kind[e] = "file" /\ C7_DirReachable(sc, sc.parent[e]) }
    ELSE {}

VssRange == VssStoreRange(source)

VssWalks == 0..Len(VssRange)

\* The volume and every store of the range open and list.
AllStoresWalk ==
  /\ source.volume = "ok"
  /\ \A k \in DOMAIN VssRange : source.stores[VssRange[k] + 1].status = "ok"

\* The stat object of an inode in walk k.
WalkStat(k, inode) ==
  IF k = 0 THEN VolumeStat ELSE source.stores[VssRange[k] + 1].stat[inode]

\* The path specification of entry e in walk k.
WalkSpec(k, e) ==
  IF k = 0 THEN PathSpec(e) ELSE <<"PathSpec", e, VssRange[k]>>

\* The files a walk of the tree comes by.
VssFiles == C7_ReachableFiles(source)

\* An earlier walk came by a file of the inode of e with the same timestamps
\* and sub-second parts.
SeenInEarlierWalk(k, e) ==
  \E j \in 0..(k - 1), f \in VssFiles :
    /\ source.inode[f] = source.inode[e]
    /\ WalkStat(j, source.inode[f]) = WalkStat(k, source.inode[e])

\* Every store of the range is a copy of the volume.
IdenticalStores ==
  \A k \in DOMAIN VssRange, e \in VssFiles :
    WalkStat(k, source.inode[e]) = VolumeStat

\* C13 as stated: with the duplicate file check on, walks of identical
\* trees push the PathSpec of each file once, and a file is skipped exactly
\* when an earlier walk recorded the same fingerprint for its inode.
C13_SkippedOnlyForEarlierWalk ==
  (cpc = "done" /\ source.duplicate_file_check /\ AllStoresWalk) =>
    /\ \A k \in VssWalks, e \in VssFiles :
         Occurrences(procQ, WalkSpec(k, e))
           = IF SeenInEarlierWalk(k, e) THEN 0 ELSE 1
    /\ IdenticalStores =>
         \A e \in VssFiles :
           Cardinality({k \in VssWalks :
                          Occurrences(procQ, WalkSpec(k, e)) > 0}) = 1

\* C13, amended: with the duplicate file check on, a walk pushes no file of
\* an inode whose fingerprint an earlier walk recorded, and of the files of
\* an inode whose fingerprint is new it pushes exactly one, once (the other
\* names of that inode are skipped in the same walk); so walks of identical
\* trees push one PathSpec per inode, in the first walk.
C13_DedupPerInodeFingerprint ==
  (cpc = "done" /\ source.duplicate_file_check /\ AllStoresWalk) =>
    /\ \A k \in VssWalks, e \in VssFiles :
         LET names == {f \in VssFiles : source.inode[f] = source.inode[e]}
             pushes == [f \in names |-> Occurrences(procQ, WalkSpec(k, f))]
         IN  IF SeenInEarlierWalk(k, e)
               THEN \A f \in names : pushes[f] = 0
               ELSE /\ \A f \in names : pushes[f] <= 1
                    /\ Cardinality({f \in names : pushes[f] = 1}) = 1
    /\ IdenticalStores =>
         \A e \in VssFiles, k \in DOMAIN VssRange :
           Occurrences(procQ, WalkSpec(k, e)) = 0

\* Two files of two inodes, the volume and both stores walked: the first
\* store is a copy of the volume and nothing of it is pushed, in the second
\* the sub-second part of one timestamp of inode 1 changed and that file
\* alone is pushed again.
C13_Witness ==
  /\ cpc = "done"
  /\ source.duplicate_file_check
  /\ VssRange = <<0, 1>>
  /\ source.kind = <<"file", "file">>
  /\ source.inode = <<1, 2>>
  /\ \A i \in Inodes : source.stores[1].stat[i] = VolumeStat
  /\ source.stores[2].stat[1] # VolumeStat
  /\ source.stores[2].stat[2] = VolumeStat
  /\ procQ = <<PathSpec(1), PathSpec(2), <<"PathSpec", 1, 1>>,
               QueueEndOfInput>>

\* The collector called OpenFileSystem for the store with this index.
StoreOpened(store_index) ==
  \E j \in 1..(cidx - 1) :
    plan.ops[j][1] = "vss" /\ plan.ops[j][2] = store_index

\* Walk k is of a file system that opens and lists.
WalkOk(k) == k = 0 \/ source.stores[VssRange[k] + 1].status = "ok"

\* C18: whatever store fails to open or to list, and whatever directory
\* fails to list, once Collect is over every store asked for was opened,
\* every file of a store that opens and lists, in a directory that lists,
\* was pushed (duplicate file check off), and Collect returned after
\* pushing EndOfInput on the process queue.
C18_FailureAbandonsOnlyItsBranch ==
  (cpc # "run" /\ source.volume = "ok") =>
    /\ cpc = "done"
    /\ Len(procQ) > 0 /\ IsEndOfInput(procQ[Len(procQ)])
    /\ \A k \in DOMAIN VssRange : StoreOpened(VssRange[k])
    /\ ~source.duplicate_file_check =>
         \A k \in VssWalks, e \in VssFiles :
           WalkOk(k) => Occurrences(procQ, WalkSpec(k, e)) = 1

\* The store indices the collector of collector.py called OpenFileSystem
\* with, in call order.
OpenedStores ==
  LET marks == SelectSeq(SubSeq(plan.ops, 1, cidx - 1),
                         LAMBDA op : op[1] = "vss")
  IN  [i \in DOMAIN marks |-> marks[i][2]]

\* The 0-based index of each store asked for: n - 1 for the n-th store of
\* the list, every index once when there is no list.
RequestedIndices ==
  IF source.vss_stores # <<>>
    THEN [i \in DOMAIN source.vss_stores |-> source.vss_stores[i] - 1]
    ELSE [i \in 1..NumStores |-> i - 1]

IsPrefix(a, b) == Len(a) <= Len(b) /\ a = SubSeq(b, 1, Len(a))

\* C19: the store indices a collector hands to the snapshot store API are
\* the 0-based indices of the stores asked for, each once and in order, for
\* the collector of collector.py and for the generic collector; all of them
\* when every store opens and lists.
C19_StoreIndexIsZeroBased ==
  /\ IsPrefix(OpenedStores, RequestedIndices)
  /\ (cpc = "done" /\ AllStoresWalk) => OpenedStores = RequestedIndices
  /\ IsPrefix(genWalked, RequestedIndices)

(***************************************************************************)
(* Claims about SmartOpenFiles (FairSmart).                                *)
(***************************************************************************)
\* C14: SmartOpenFiles comes to an end on every input, also when every
\* member is a container again without end, and no file entry it yields is
\* nested more than MAX_FILE_DEPTH levels below the file handed over; the
\* recursion is never deeper than that either.
C14_DepthBoundAndTermination ==
  /\ [](\A i \in DOMAIN smartOut : smartOut[i][2] <= MAX_FILE_DEPTH)
  /\ [](\A i \in DOMAIN smartStack : smartStack[i].depth <= MAX_FILE_DEPTH)
  /\ <>(smartPc \in {"done", "raised"})

\* File 1 holds itself twice: SmartOpenFiles ended after yielding it on
\* every level down to MAX_FILE_DEPTH, two entries per entry of the level
\* above.
C14_Witness ==
  /\ smartPc = "done"
  /\ smartInput.members[1] = <<1, 1>>
  /\ Len(smartOut) = 14
  /\ \E i \in DOMAIN smartOut : smartOut[i][2] = MAX_FILE_DEPTH

(***************************************************************************)
(* Claims about the event filter (SpecFilter).                             *)
(***************************************************************************)
\* The events the claim lets through: all without a filter object, with one
\* those for which Matches is false.
C15_Kept ==
  SelectSeq(evFed, LAMBDA ev : filterObject = "none" \/ ~Matches(ev))

\* C15: with a filter object set an event for which Matches is true is
\* neither pushed nor counted and every other event is pushed and counted;
\* without one every event is pushed.  Stated of each place that applies
\* the filter.
C15_MatchingEventIsDropped ==
  /\ wkQueue = C15_Kept /\ wkCounter = Len(C15_Kept)
  /\ pwQueue = C15_Kept
  /\ ctxQueue = C15_Kept /\ ctxCounter = Len(C15_Kept)

(***************************************************************************)
(* Claims about a complete run with one worker (SpecSingle).               *)
(***************************************************************************)
\* The event objects that went onto the storage queue so far, in the order
\* the storage consumer takes them.
C16_Stored ==
  handled[Storage]
    \o (IF pc[Storage] = "got" /\ ~IsEndOfInput(held[Storage])
          THEN <<held[Storage]>> ELSE <<>>)
    \o SelectSeq(storQ, LAMBDA item : ~IsEndOfInput(item))

\* Those a parser of the worker yielded (parser 0 marks the stat events the
\* collector sends for a directory).
C16_FromParsers == SelectSeq(C16_Stored, LAMBDA ev : ev[3] # 0)

\* The run is over: collector, worker, engine and storage consumer.
C16_Complete ==
  /\ cpc = "done"
  /\ pc[1] = "done"
  /\ epc = "done"
  /\ pc[Storage] = "done"

\* What holds of the events of the parsers in every state: no event twice,
\* as many as the worker counted, each of a file the collector pushed, the
\* events of one parser on one file numbered 1, 2, ... without a gap, none
\* of a parser that raised before it yielded, and no exception of a parser
\* ends the worker.
C16_ParserEventsOnce ==
  /\ \A i, j \in DOMAIN C16_FromParsers :
       C16_FromParsers[i] = C16_FromParsers[j] => i = j
  /\ Len(C16_FromParsers) = counter[1]
  /\ \A i \in DOMAIN C16_FromParsers :
       LET ev == C16_FromParsers[i] IN
         /\ ev[2] \in C7_ReachableFiles(source)
         /\ <<ev[2], ev[3]>> \in ran
         /\ \A k \in 1..(ev[4] - 1) :
              \E j \in DOMAIN C16_FromParsers :
                C16_FromParsers[j] = <<"Event", ev[2], ev[3], k>>
  /\ lastRaise[1] # None =>
       Cardinality({i \in DOMAIN C16_FromParsers :
                      /\ C16_FromParsers[i][2] = lastRaise[1][1]
                      /\ C16_FromParsers[i][3] = lastRaise[1][2]})
         = lastRaise[1][4]
  /\ pc[1] # "raised"

\* C16 as stated: after a complete run with one worker and no filter the
\* storage consumer has received exactly the events the parsers yielded for
\* the collected files, each once, and then one EndOfInput; a file no
\* parser can parse adds no event and ends nothing.
C16_OnlyParserEventsStored ==
  /\ C16_ParserEventsOnce
  /\ C16_Complete =>
       /\ storQ = <<QueueEndOfInput>>
       /\ handled[Storage] = C16_FromParsers

\* The directories whose _ProcessDirectory sends stat events, once per sub
\* directory it holds.
C16_DirectoryEvents ==
  IF source.dirmeta
    THEN Cardinality({e \in DOMAIN source.kind :
                        /\ source.kind[e] = "dir"
                        /\ C7_DirReachable(source, source.parent[e])})
           * StatTimes
    ELSE 0

\* C16, amended: the storage consumer has received the events the parsers
\* yielded for the collected files, each once, besides them only the stat
\* events the collector itself sends for directories when directory
\* metadata is collected, and then one EndOfInput.
C16_ParserAndDirectoryEventsStored ==
  /\ C16_ParserEventsOnce
  /\ C16_Complete =>
       /\ storQ = <<QueueEndOfInput>>
       /\ C16_Stored = handled[Storage]
       /\ Len(handled[Storage]) = counter[1] + C16_DirectoryEvents
       /\ \A i \in DOMAIN handled[Storage] :
            handled[Storage][i][3] = 0 =>
              /\ source.dirmeta
              /\ C7_DirReachable(source, handled[Storage][i][2])

\* Two files: the first parser yielded two events for file 1, no parser
\* yielded one for file 2 and the last one raised UnableToParseFile on it,
\* and the run is complete with the two events received.
C16_Witness ==
  /\ C16_Complete
  /\ source.kind = <<"file", "file">>
  /\ handled[Storage] = << <<"Event", 1, 1, 1>>, <<"Event", 1, 1, 2>> >>
  /\ storQ = <<QueueEndOfInput>>
  /\ lastRaise[1] = <<2, NumParsers, "UnableToParseFile", 0>>
  /\ \A p \in 1..NumParsers : <<2, p>> \in ran

(***************************************************************************)
(* Claims about a source that does not resolve (SpecCollect).              *)
(***************************************************************************)
\* C17: when the source path specification resolves to no file entry the
\* failure is raised to the caller, by Engine.SetSource and by
\* Collector.Collect, and nothing is pushed on the process queue or the
\* storage queue: no PathSpec, no event, no sentinel.
C17_UnresolvableSourceIsFatal ==
  source.src = "missing" =>
    /\ SetSource(source) # "set"
    /\ procQ = <<>>
    /\ storQ = <<>>
    /\ cpc \in {"run", "raised"}
    /\ cpc # "run" => plan.outcome = "raised"

(***************************************************************************)
(* Claims about the order of event objects on the storage queue            *)
(* (SpecOrder).  A worker pushes the events of the files it consumed, file *)
(* after file in the order of handled[w], parser after parser, and the     *)
(* events of one parser in the order it yields them.                       *)
(***************************************************************************)
\* The position in handled[w] of the path specification of file e, 0 when
\* worker w did not consume it.
C20_FileIndex(w, e) ==
  IF \E i \in DOMAIN handled[w] : handled[w][i] = PathSpec(e)
    THEN CHOOSE i \in DOMAIN handled[w] : handled[w][i] = PathSpec(e)
    ELSE 0

\* Worker w pushed event object a, and later event object b.
C20_PushedBefore(w, a, b) ==
  /\ C20_FileIndex(w, a[2]) > 0
  /\ C20_FileIndex(w, b[2]) > 0
  /\ \/ C20_FileIndex(w, a[2]) < C20_FileIndex(w, b[2])
     \/ a[2] = b[2] /\ a[3] < b[3]
     \/ a[2] = b[2] /\ a[3] = b[3] /\ a[4] < b[4]

\* C20: with several workers pushing concurrently, two event objects of the
\* same worker reach the storage consumer in the order the worker pushed
\* them, in every interleaving; every event a worker counted is on its way
\* exactly once.
C20_PerWorkerOrderKept ==
  /\ \A i, j \in DOMAIN C16_Stored :
       /\ C16_Stored[i] = C16_Stored[j] => i = j
       /\ \A w \in Workers :
            C20_PushedBefore(w, C16_Stored[i], C16_Stored[j]) => i < j
  /\ \A w \in Workers :
       Cardinality({i \in DOMAIN C16_Stored :
                      C20_FileIndex(w, C16_Stored[i][2]) > 0}) = counter[w]

\* Worker 1 consumed file 1 and worker 2 file 2; the storage consumer has
\* received the first event of worker 1, then the event of worker 2, then
\* the second event of worker 1.
C20_Witness ==
  /\ handled[1] = <<PathSpec(1)>>
  /\ handled[2] = <<PathSpec(2)>>
  /\ handled[Storage] = << <<"Event", 1, 1, 1>>, <<"Event", 2, 1, 1>>,
                           <<"Event", 1, 1, 2>> >>


(***************************************************************************)
(* Claims about how a worker leaves its consume loop (Spec).               *)
(***************************************************************************)
\* The collector has a path specification left to push.
CollectorMayPush ==
  /\ cpc = "run"
  /\ \E i \in cidx..Len(plan.ops) :
       plan.ops[i][1] = "process" /\ ~IsEndOfInput(plan.ops[i][2])

\* C21 as stated: a worker whose consume loop has returned has popped
\* EndOfInput from the process queue, and the collector has no path
\* specification left to push.
C21_ExitOnlyAfterSentinel ==
  \A w \in Workers :
    pc[w] = "done" => SawEndOfInput(w) /\ ~CollectorMayPush

\* The step in which worker w leaves its loop: from the loop body with the
\* sentinel it popped, or from PopItem, which raised QueueEmpty because the
\* interrupt arrived while it waited.
C21_ExitStep(w) ==
  pc[w] # "done" /\ pc'[w] = "done" =>
    \/ pc[w] = "got" /\ IsEndOfInput(held[w])
    \/ pc[w] \in {"pop", "blocked"} /\ epc = "wait" /\ epc' = "abort"

\* C21, amended: a worker's consume loop returns only after that worker has
\* popped EndOfInput from the process queue or after its PopItem raised
\* QueueEmpty; in a run that is not interrupted it never exits while the
\* collector may still push path specifications.
C21_ExitAfterSentinelOrQueueEmpty ==
  /\ [][\A w \in Workers : C21_ExitStep(w)]_vars
  /\ [](epc \in {"wait", "done"} => C21_ExitOnlyAfterSentinel)

\* A worker has left its loop on QueueEmpty: it holds no sentinel, and the
\* collector had not finished when the interrupt came.
C21_Witness ==
  \E w \in Workers :
    /\ pc[w] = "done"
    /\ ~IsEndOfInput(held[w])
    /\ epc = "abort"
    /\ cidx <= Len(plan.ops)


(***************************************************************************)
(* Claims about the order of the walk (SpecWalk).                          *)
(***************************************************************************)
RECURSIVE C22_Depth(_)
\* The depth of entry e below the source root: 1 for an entry of the root.
C22_Depth(e) ==
  IF source.parent[e] = 0 THEN 1 ELSE 1 + C22_Depth(source.parent[e])

\* C22: the collector pushes path specifications in breadth-first order,
\* every file at depth d before any file at depth d + 1, and the nesting
\* of _ProcessDirectory calls does not grow with the depth of the tree: it
\* is that of a single directory.
C22_BreadthFirstOrder ==
  /\ \A i, j \in DOMAIN procQ :
       (/\ ~IsEndOfInput(procQ[i])
        /\ ~IsEndOfInput(procQ[j])
        /\ C22_Depth(procQ[i][2]) < C22_Depth(procQ[j][2])) => i < j
  /\ ProcessDirectoryNesting(source, 0) = 1


(***************************************************************************)
(* Claims about event enrichment (SpecEnrich).                             *)
(***************************************************************************)
\* Routine r left alone every attribute the parser had set.
C23_Kept(r) ==
  LET out == enrOut[1][r] IN
    /\ enrEvent.hostname # "absent" => out.hostname = enrEvent.hostname
    /\ enrEvent.username # "absent" => out.username = enrEvent.username
    /\ enrEvent.inode # "absent" => out.inode = enrEvent.inode

\* C23: enrichment never overwrites a hostname, username or inode the
\* parser already set on the event object, in none of the three routines.
C23_ParserValuesAreKept ==
  enrOut # <<>> => \A r \in {"worker", "plaso", "context"} : C23_Kept(r)


(***************************************************************************)
(* Claims about GuessOS (SpecGuess).                                       *)
(***************************************************************************)
\* The signatures present in the source the searcher looked at: a Windows
\* system directory, /System/Library, /etc.
C24_Present ==
  [windows |-> \E i \in DOMAIN guessFound : guessFound[i].dir \in WindowsDirs,
   macosx |-> \E i \in DOMAIN guessFound :
                guessFound[i].dir = "system/library" /\ guessFound[i].sep = "/",
   linux |-> \E i \in DOMAIN guessFound :
               guessFound[i].dir = "etc" /\ guessFound[i].sep = "/"]

\* The same for the collector.
C24_PresentOld ==
  [windows |-> guessOld.windows = "found",
   macosx |-> guessOld.macosx = "found",
   linux |-> guessOld.linux = "found"]

\* The answer by priority.
C24_ByPriority(present) ==
  IF present.windows THEN "Windows"
  ELSE IF present.macosx THEN "MacOSX"
  ELSE IF present.linux THEN "Linux"
  ELSE "None"

C25_CpusMinusThreeFloorOne ==
  (workerCount # <<>> /\ optWorkers < 1) =>
    workerCount[1] = (IF cpuCount - 3 < 1 THEN 1 ELSE cpuCount - 3)


(***************************************************************************)
(* Claims about directory metadata (SpecWalk).                             *)
(***************************************************************************)
\* The allocated sub-directories the walk encounters.
C26_SubDirectories ==
  {e \in DOMAIN source.kind :
     /\ source.kind[e] = "dir"
     /\ C7_DirReachable(source, source.parent[e])}

\* C26: with directory metadata collection enabled the collector pushes on
\* the storage queue, for each allocated sub-directory it encounters, the
\* stat events of that sub-directory itself, once.
C26_OwnStatEventsOncePerDirectory ==
  (cpc = "done" /\ source.dirmeta) =>
    \A e \in C26_SubDirectories :
      Cardinality({i \in DOMAIN storQ : storQ[i][2] = e}) = StatTimes


(***************************************************************************)
(* Claims about the engine object (SpecEngine).                            *)
(***************************************************************************)
\* C27: the collector CreateCollector returns for include_directory_stat
\* false pushes no directory stat event on the storage queue during
\* Collect; such events are pushed only when it is true.
C27_NoDirectoryStatUnlessAsked ==
  (engCreated = "collector" /\ ~includeStat) => storQ = <<>>

\* C30: after SetSource raised BadConfigOption or CollectorError the engine
\* has no usable source: CreateCollector and GetSourceFileSystemSearcher
\* raise RuntimeError('Missing source.').
C30_RejectedSourceIsNotKept ==
  engSetSource \in {"BadConfigOption", "CollectorError"} =>
    /\ engCreated \in {"uncalled", "RuntimeError"}
    /\ engSearcher \in {"uncalled", "RuntimeError"}


C29_ConsumersOf(qname) == {c \in Consumers : QueueOf(c) = qname}

\* The number of EndOfInput items in queue q.
C29_InQueue(q) == Cardinality({i \in DOMAIN q : IsEndOfInput(q[i])})

\* The number of consumers of a queue that hold the sentinel between their
\* pop and their re-push.
C29_Held(qname) ==
  Cardinality({c \in C29_ConsumersOf(qname) :
                 pc[c] = "got" /\ IsEndOfInput(held[c])})

\* The number of SignalEndOfInput calls made on a queue so far: by the
\* collector or the engine, and by StopThreads.
C29_Signals(qname) ==
  (IF qname = "process"
     THEN Cardinality({i \in 1..(cidx - 1) :
                         plan.ops[i] = <<"process", QueueEndOfInput>>})
     ELSE IF epc = "done" THEN 1 ELSE 0)
  + (IF epc = "stopped" THEN 1 ELSE 0)

\* A consumer of the queue was ended while it held the sentinel.
C29_EndedHolding(qname) ==
  \E c \in C29_ConsumersOf(qname) :
    pc[c] \in {"killed", "raised"} /\ IsEndOfInput(held[c])

C29_Conserved(qname, q) ==
  /\ C29_InQueue(q) + C29_Held(qname) = 1
  /\ (\A c \in C29_ConsumersOf(qname) : pc[c] \in Terminated)
       => C29_InQueue(q) = 1

=============================================================================
